---- MODULE Spec2Model ----
\* Load-balancer provisioning of bff-manager (manager/loadbalancer.py):
\* LoadBalancerManager.add_to_loadbalancer and remove_from_loadbalancer, the
\* provisioners they call, the cloud resources the gcloud commands act on and
\* the manifest they update.  One action per external command or prompt.
EXTENDS Integers, Sequences, FiniteSets, TLC

\* ---------------------------------------------------------------- bounds
\* Number of orchestrator runs (add or remove) started in one behaviour.
MaxRuns == 2

\* ------------------------------------------------------------- constants
\* Strings that the code slices, lower-cases or concatenates are sequences
\* of characters; names that are only compared are TLA+ strings.
DOMAIN_NAME == "marketing-ai.lightricks.com"
ActiveMatcher == "path-matcher-1"
NoName == "<no name key>"
ThrottlePriority == 2147483646
project_name == <<"a">>
BackendName == "a-backend"
NegName == "a-neg"
PolicyName == "default-security-policy-for-backend-service-a-backend"
OAuthDisplayName == "IAP-a-backend"
None == <<>>

\* str.lower() on the characters a confirmation line is made of.
LowerChar(c) ==
    CASE c = "Y" -> "y"
      [] c = "E" -> "e"
      [] c = "S" -> "s"
      [] c = "N" -> "n"
      [] OTHER -> c

Lower(s) == [i \in DOMAIN s |-> LowerChar(s[i])]

\* str.startswith
StartsWith(p, prefix) ==
    /\ Len(p) >= Len(prefix)
    /\ SubSeq(p, 1, Len(prefix)) = prefix

\* Python truthiness of a manifest state flag ("True", "False" or "None").
Truthy(flag) == flag = "True"

\* Lines a user may type at a prompt.
Responses ==
    { <<"y">>, <<"y", "e", "s">>, <<"Y", "E", "S">>, <<"Y", "e", "s">>, <<"Y">>,
      <<"n">>, <<>> }

\* Values of the `path` argument: omitted, or an explicit prefix.
PathArgs == { None, <<"/", "b">> }

\* ------------------------------------------------------ URL-map documents
RuleNoWildcard(path, backend, host) ==
    [ paths |-> << path, path \o <<"/">> >>,
      service |-> backend,
      hostRewrite |-> host ]
Rule(path, backend, host) ==
    [ paths |-> << path, path \o <<"/">>, path \o <<"/", "*">> >>,
      service |-> backend,
      hostRewrite |-> host ]

Matcher(name, hasRules, rules) ==
    [ name |-> name, hasPathRules |-> hasRules, pathRules |-> rules ]

\* URL maps the shared load balancer may hold before the first run.
UrlMaps ==
    { << Matcher(ActiveMatcher, TRUE, <<>>) >>,
      << Matcher("other", TRUE, <<>>),
         Matcher(ActiveMatcher, TRUE, << Rule(<<"/", "a", "2">>, "a2-backend", "") >>) >>,
      << Matcher(ActiveMatcher, FALSE, <<>>) >>,
      << Matcher(NoName, TRUE, <<>>), Matcher(ActiveMatcher, TRUE, <<>>) >>,
      << Matcher("other", TRUE, <<>>) >> }

\* add_path_rule, lines 302-308: the loop over pathMatchers.  matcher["name"]
\* raises KeyError on a matcher without that key; the first matcher named
\* path-matcher-1 gets the rule appended and ends the loop.
RECURSIVE AddScan(_, _, _)
AddScan(ms, i, rule) ==
    IF i > Len(ms) THEN [ raised |-> FALSE, matchers |-> ms ]
    ELSE IF ms[i].name = NoName THEN [ raised |-> TRUE, matchers |-> ms ]
    ELSE IF ms[i].name = ActiveMatcher
         THEN [ raised |-> FALSE,
                matchers |-> [ ms EXCEPT ![i] =
                    [ @ EXCEPT !.hasPathRules = TRUE,
                               !.pathRules = Append(@, rule) ] ] ]
    ELSE AddScan(ms, i + 1, rule)

\* remove_from_loadbalancer, line 523: the rule is dropped when any of its
\* paths starts with the prefix.
RuleMatches(rule, prefix) ==
    \E k \in DOMAIN rule.paths : StartsWith(rule.paths[k], prefix)

RECURSIVE FilterRules(_, _)
FilterRules(rules, prefix) ==
    IF rules = <<>> THEN <<>>
    ELSE IF RuleMatches(Head(rules), prefix)
         THEN FilterRules(Tail(rules), prefix)
         ELSE << Head(rules) >> \o FilterRules(Tail(rules), prefix)

\* remove_from_loadbalancer, lines 518-524: every matcher is visited (no
\* break); only matchers named path-matcher-1 that have pathRules are filtered.
RemoveScanAll(ms, prefix) ==
    IF \E i \in DOMAIN ms : ms[i].name = NoName
    THEN [ raised |-> TRUE, matchers |-> ms ]
    ELSE [ raised |-> FALSE,
           matchers |-> [ i \in DOMAIN ms |->
               IF ms[i].hasPathRules
               THEN [ ms[i] EXCEPT !.pathRules = FilterRules(@, prefix) ]
               ELSE ms[i] ] ]
RemoveScan(ms, prefix) ==
    IF \E i \in DOMAIN ms : ms[i].name = NoName
    THEN [ raised |-> TRUE, matchers |-> ms ]
    ELSE [ raised |-> FALSE,
           matchers |-> [ i \in DOMAIN ms |->
               IF ms[i].name = ActiveMatcher /\ ms[i].hasPathRules
               THEN [ ms[i] EXCEPT !.pathRules = FilterRules(@, prefix) ]
               ELSE ms[i] ] ]

\* --------------------------------------------------------------- manifest
Url(path) == << "https://", DOMAIN_NAME >> \o path

\* add_to_loadbalancer, lines 448-456.
AddManifestUpdateNoLog(m, path) ==
    [ m EXCEPT !.state.loadbalancer_configured = "True",
               !.config.loadbalancer_path = path,
               !.config.loadbalancer_url = Url(path) ]
AddManifestUpdate(m, path) ==
    [ m EXCEPT !.state.loadbalancer_configured = "True",
               !.config.loadbalancer_path = path,
               !.config.loadbalancer_url = Url(path),
               !.log = Append(@, [ operation |-> "loadbalancer_add",
                                   path |-> path,
                                   backend_name |-> BackendName,
                                   oauth_client |-> OAuthDisplayName,
                                   domain |-> DOMAIN_NAME ]) ]

\* remove_from_loadbalancer, lines 598-604.
RemoveManifestUpdateKeepsUrl(m, path) ==
    [ m EXCEPT !.state.loadbalancer_configured = "False",
               !.config.loadbalancer_path = None,
               !.log = Append(@, [ operation |-> "loadbalancer_remove",
                                   path |-> path,
                                   backend_name |-> BackendName ]) ]
RemoveManifestUpdate(m, path) ==
    [ m EXCEPT !.state.loadbalancer_configured = "False",
               !.config.loadbalancer_path = None,
               !.config.loadbalancer_url = None,
               !.log = Append(@, [ operation |-> "loadbalancer_remove",
                                   path |-> path,
                                   backend_name |-> BackendName ]) ]

\* ------------------------------------------------------------- decisions
\* add_to_loadbalancer, line 396.
NotDeployedMut(m) == m.state.deployed = "False"
NotDeployed(m) == ~Truthy(m.state.deployed)

\* add_to_loadbalancer, line 413.
AddConfirmed(response) == Lower(response) \in { <<"y">>, <<"y", "e", "s">> }

\* remove_from_loadbalancer, line 500.
RemoveConfirmedLenient(response) == Lower(response) \in { <<"y">>, <<"y", "e", "s">> }
RemoveConfirmedExact(response) == response = <<"y", "e", "s">>
RemoveConfirmed(response) == Lower(response) = <<"y", "e", "s">>

\* add_to_loadbalancer, line 390, and remove_from_loadbalancer, line 480.
AddPath(arg) == IF arg # None THEN arg ELSE <<"/">> \o project_name

RemovePath(arg, m) ==
    IF arg # None THEN arg
    ELSE IF m.config.loadbalancer_path # None THEN m.config.loadbalancer_path
    ELSE <<"/">> \o project_name

\* The steps of add_to_loadbalancer in the order of lines 417-456.
AddOrderSwapped ==
    << "neg", "policy", "oauth", "backend", "iap", "hostname", "urlmap", "manifest" >>
AddOrder ==
    << "neg", "oauth", "policy", "backend", "iap", "hostname", "urlmap", "manifest" >>

\* The teardown steps of remove_from_loadbalancer in the order of lines 504-604.
RemoveOrderWithOAuth == << "urlmap", "backend", "neg", "policy", "oauth", "manifest" >>
RemoveOrderNegFirst == << "urlmap", "neg", "backend", "policy", "manifest" >>
RemoveOrder == << "urlmap", "backend", "neg", "policy", "manifest" >>

\* First program position of a step.
Entry(op, step) ==
    IF op = "add"
    THEN CASE step = "neg" -> "neg_describe"
           [] step = "oauth" -> "oauth_create"
           [] step = "policy" -> "policy_describe"
           [] step = "backend" -> "backend_describe"
           [] step = "iap" -> "iap_grant"
           [] step = "hostname" -> "run_describe"
           [] step = "urlmap" -> "urlmap_describe"
           [] step = "manifest" -> "add_manifest"
    ELSE CASE step = "urlmap" -> "rm_urlmap_describe"
           [] step = "manifest" -> "rm_manifest"
           [] OTHER -> "rm_delete"

Index(seq, x) == CHOOSE i \in DOMAIN seq : seq[i] = x

\* The step that follows `step` in an add run; the hostname lookup of lines
\* 439-441 is skipped unless use_host_rewrite.
AddNextAlwaysResolves(step, use_host_rewrite) ==
    AddOrder[Index(AddOrder, step) + 1]
AddNext(step, use_host_rewrite) ==
    LET n == AddOrder[Index(AddOrder, step) + 1]
    IN IF n = "hostname" /\ ~use_host_rewrite
       THEN AddOrder[Index(AddOrder, n) + 1]
       ELSE n

RemoveNext(step) == RemoveOrder[Index(RemoveOrder, step) + 1]

\* ------------------------------------------------------- cloud resources
\* What the gcloud commands act on.  A describe probe exits 0 exactly when
\* the resource exists; a mutating command may exit non-zero for any reason
\* and then changes nothing.
NoBackend == [ exists |-> FALSE, backends |-> {}, portName |-> "", securityPolicy |-> FALSE ]
NoPolicy == [ exists |-> FALSE, rules |-> {} ]

\* gcloud ... delete, lines 562-567, 575-580, 588-592.
Delete(c, kind) ==
    CASE kind = "backend" -> [ c EXCEPT !.backend = NoBackend ]
      [] kind = "neg" -> [ c EXCEPT !.neg = FALSE ]
      [] kind = "policy" -> [ c EXCEPT !.policy = NoPolicy ]
      [] kind = "oauth" ->
            [ c EXCEPT !.oauth_clients = @ \ { CHOOSE x \in @ : \A y \in @ : y <= x } ]

Exists(c, kind) ==
    CASE kind = "backend" -> c.backend.exists
      [] kind = "neg" -> c.neg
      [] kind = "policy" -> c.policy.exists
      [] kind = "oauth" -> c.oauth_clients # {}

DeleteCmd(kind) ==
    CASE kind = "backend" -> "backend-services delete"
      [] kind = "neg" -> "network-endpoint-groups delete"
      [] kind = "policy" -> "security-policies delete"
      [] kind = "oauth" -> "oauth-clients delete"

\* Commands that only read.
Probes ==
    { "network-endpoint-groups describe", "security-policies describe",
      "backend-services describe", "run services describe", "url-maps describe" }

Mutating(cmd) == cmd \notin Probes

\* ------------------------------------------------------------ provisioners
\* create_serverless_neg, line 38, and create_security_policy, line 108.
AlreadyExistsNever(returncode) == FALSE
AlreadyExists(returncode) == returncode = 0

\* create_iap_oauth_client, lines 70-82: client id from the `name:` line,
\* secret from the `secret:` line.
ParseOAuth(stdout) ==
    [ client_id |-> stdout.name, client_secret |-> stdout.secret,
      display_name |-> OAuthDisplayName ]

NoClient == [ client_id |-> "", client_secret |-> "", display_name |-> "" ]

OAuthStdouts == [ name : { "", "cid" }, secret : { "", "sec" } ]

\* create_backend_service, lines 163-197: what is done with a backend
\* service that already exists.
BackendBranchAdoptAttaches(info) ==
    IF info.backends # {} THEN "attach"
    ELSE IF info.portName # "" THEN "recreate"
    ELSE "attach"
BackendBranchPoisonedAttaches(info) ==
    IF info.backends # {} THEN "adopt" ELSE "attach"
BackendBranch(info) ==
    IF info.backends # {} THEN "adopt"
    ELSE IF info.portName # "" THEN "recreate"
    ELSE "attach"

\* ------------------------------------------- URL-map documents, in full
\* The document `url-maps describe` prints and `url-maps import` reads:
\* the top-level keys besides id and pathMatchers, the id, and the path
\* matchers, each with the keys it carries besides name and pathRules.
OutputOnly == { "creationTimestamp", "selfLink", "fingerprint", "kind" }

Doc(fields, id, ms) == [ fields |-> fields, id |-> id, pathMatchers |-> ms ]

MatcherF(name, hasRules, rules, fields) ==
    [ name |-> name, hasPathRules |-> hasRules, pathRules |-> rules, fields |-> fields ]

NoDoc == Doc({}, "absent", <<>>)

\* add_path_rule, lines 312-316: int(url_map["id"]), or the key is deleted.
\* An id is absent, a string of digits, another string, or a number.
StripId(id) ==
    CASE id = "string of digits" -> "number"
      [] id = "other string" -> "absent"
      [] OTHER -> id

\* add_path_rule, lines 310-327, and remove_from_loadbalancer, lines 526-540:
\* the four output-only keys are deleted at top level, `kind` in each matcher.
StripTopLevelOnly(doc) ==
    [ doc EXCEPT !.fields = @ \ OutputOnly, !.id = StripId(@) ]
Strip(doc) ==
    [ fields |-> doc.fields \ OutputOnly,
      id |-> StripId(doc.id),
      pathMatchers |-> [ i \in DOMAIN doc.pathMatchers |->
          [ doc.pathMatchers[i] EXCEPT !.fields = @ \ { "kind" } ] ] ]

PA == <<"/", "a">>
PB == <<"/", "b">>
PA2 == <<"/", "a", "2">>
EditPaths == { PA, PB }

\* The backend service of the project that owns a path.
EditBackend(path) == IF path = PA THEN BackendName ELSE "b-backend"

\* Documents the shared URL map may hold before the first cycle.
EditDocs ==
    { Doc(OutputOnly \cup { "name", "defaultService" }, "string of digits",
          << MatcherF(ActiveMatcher, TRUE, <<>>, { "kind" }) >>),
      Doc({ "kind", "name" }, "other string",
          << MatcherF("other", TRUE, << Rule(PA, "legacy-backend", "") >>,
                      { "kind", "selfLink" }),
             MatcherF(ActiveMatcher, TRUE, << Rule(PA2, "a2-backend", "") >>, {}) >>),
      Doc({ "name" }, "absent",
          << MatcherF(ActiveMatcher, FALSE, <<>>, { "defaultService" }) >>),
      Doc({ "name", "fingerprint" }, "number",
          << MatcherF("other", TRUE, <<>>, { "kind" }) >>),
      Doc({ "name" }, "string of digits",
          << MatcherF(NoName, TRUE, <<>>, {}),
             MatcherF(ActiveMatcher, TRUE, <<>>, {}) >>) }

\* add_path_rule, lines 283-332: the document written to the scratch file.
AddCycle(doc, path, host) ==
    LET scan == AddScan(doc.pathMatchers, 1, Rule(path, EditBackend(path), host))
    IN [ raised |-> scan.raised,
         file |-> Strip([ doc EXCEPT !.pathMatchers = scan.matchers ]) ]

\* remove_from_loadbalancer, lines 517-545: the document written to the file.
RemoveCycle(doc, prefix) ==
    LET scan == RemoveScan(doc.pathMatchers, prefix)
    IN [ raised |-> scan.raised,
         file |-> Strip([ doc EXCEPT !.pathMatchers = scan.matchers ]) ]

\* url-maps import: the path matchers are replaced by those of the file; the
\* output-only keys stay as the server assigns them.
ImportIgnored(doc, file) == doc
Import(doc, file) == [ doc EXCEPT !.pathMatchers = file.pathMatchers ]

\* Processes that run add/remove-rule cycles on the shared URL map.
Editors == { 1, 2 }

\* Cycles one editor runs.
MaxCycles == 3

NoPrior == [ valid |-> FALSE, path |-> None, before |-> <<>>, after |-> <<>> ]

NoEditor ==
    [ op |-> "none", pc |-> "done", path |-> None, fetched |-> NoDoc,
      file |-> NoDoc, result |-> "none", cycles |-> 0,
      prior |-> NoPrior, roundtrip |-> FALSE, order |-> 0 ]

NoEdit == [ doc |-> NoDoc, ed |-> [ e \in Editors |-> NoEditor ], imports |-> 0 ]

\* ------------------------------------------------------------------ state
VARIABLES
    manifest,   \* ManifestManager: state flags, config values, operation log
    cloud,      \* the cloud resources of the project and the shared URL map
    run,        \* the orchestrator run in progress: arguments, locals, position
    pre,        \* manifest and cloud as they were when the run began
    runs,       \* number of runs started
    edit,       \* the URL map under concurrent add/remove-rule cycles (SpecEdit)
    hist,       \* history: what the add runs so far have done, counted over all runs
    init        \* InitManager: the machine it runs on and its initialize run (SpecInit)

vars == << manifest, cloud, run, pre, runs, edit, hist, init >>

\* add_to_loadbalancer, lines 417-424, counted over the runs: the runs in which
\* create_serverless_neg returned success, and the oauth-clients create
\* commands issued.
NoHist == [ neg_succeeded |-> 0, oauth_creates |-> 0 ]

\* ------------------------------------------------------------ InitManager
\* initialize() runs started in one behaviour (SpecInit).
MaxInits == 2

\* Times check_and_install_dependencies asks to install in one run: each
\* accepted prompt ends in the recursive re-check of line 165.
MaxPrompts == 2

\* sys.version_info.major and .minor of the interpreter.
Majors == { 2, 3, 4 }
Minors == { 0, 9, 10, 11 }

\* check_python_version, line 32: the first component of the returned pair.
check_python_version(major, minor) == major >= 3 /\ minor >= 10

\* check_command, line 26: shutil.which over the commands on PATH.
check_command(i, command) == command \in i.PATH

\* The executables check_and_install_dependencies looks for, and brew.
Commands == { "git", "uv", "node", "npm", "brew" }

\* check_and_install_dependencies, lines 92-131: missing_required, in the
\* order git, python, uv, node, npm.
MissingIf(missing, cmd) == IF missing THEN << cmd >> ELSE <<>>
missing_required(i) ==
    MissingIf(~check_command(i, "git"), "git")
    \o MissingIf(~check_python_version(i.version[1], i.version[2]), "python")
    \o MissingIf(~check_command(i, "uv"), "uv")
    \o MissingIf(~check_command(i, "node"), "node")
    \o MissingIf(~check_command(i, "npm"), "npm")

\* install_with_homebrew, lines 40-54; returncode is that of `brew install`.
install_with_homebrew(i, returncode) ==
    /\ i.is_mac
    /\ check_command(i, "brew")
    /\ returncode = 0

\* install_uv, lines 58-85: Homebrew first on a Mac, then the official
\* installer; curl_returncode is the exit code of the installer pipeline.
install_uv(i, returncode, curl_returncode) ==
    \/ check_command(i, "uv")
    \/ i.is_mac /\ install_with_homebrew(i, returncode)
    \/ curl_returncode = 0

\* Lines 145-162: installing one entry of missing_required.  `npm` has no
\* branch of its own: nothing is installed for it.
Install(i, cmd, returncode, curl_returncode) ==
    CASE cmd = "uv" -> install_uv(i, returncode, curl_returncode)
      [] cmd \in { "python", "node", "git" } -> install_with_homebrew(i, returncode)
      [] OTHER -> TRUE

\* What a successful installation may put on PATH: the package's commands
\* (node brings npm; python@3.11 does not change the running interpreter).
Provides(cmd) ==
    CASE cmd = "node" -> { "node", "npm" }
      [] cmd \in { "uv", "git" } -> { cmd }
      [] OTHER -> {}

\* initialize, lines 409-427: the steps in the order they are called.
InitOrder == << "dependencies", "env_file", "project_files", "frontend", "backend" >>

\* initialize, line 405.
Reinitialize(response) == Lower(response) \in { <<"y">>, <<"y", "e", "s">> }

\* initialize, lines 430-432.
InitManifestUpdate(m) ==
    [ m EXCEPT !.state.initialized = "True",
               !.config.project_name = project_name,
               !.log = Append(@, [ operation |-> "init", type |-> "local" ]) ]

\* No InitManager run: the machine and the locals of initialize.
NoInit ==
    [ is_mac |-> FALSE, PATH |-> {}, version |-> << 3, 10 >>, package_json |-> FALSE,
      pc |-> "done", skip_frontend_build |-> FALSE, prompted |-> FALSE,
      python_ok |-> "none", todo |-> <<>>, prompts |-> 0,
      steps |-> <<>>, passed |-> <<>>, calls |-> <<>>, result |-> "none" ]
NoRun ==
    [ op |-> "none", pc |-> "done", step |-> "", path |-> None,
      skip_confirmation |-> FALSE, use_host_rewrite |-> FALSE,
      response |-> <<>>, prompted |-> FALSE, gcloud |-> TRUE, gh |-> TRUE,
      message |-> "", iap_returncode |-> "none",
      calls |-> <<>>, result |-> "none", failed |-> "",
      oauth_client |-> NoClient, has_backends |-> "None", cloud_run_url |-> "",
      url_map |-> <<>>, created |-> {} ]

FreshCloud(doc) ==
    [ neg |-> FALSE, policy |-> NoPolicy, backend |-> NoBackend,
      oauth_clients |-> {}, url_map |-> doc ]

\* A project whose backend service was created by hand with a port name.
LegacyCloud(doc) ==
    [ neg |-> TRUE, policy |-> [ exists |-> TRUE, rules |-> { ThrottlePriority } ],
      backend |-> [ exists |-> TRUE, backends |-> {}, portName |-> "http",
                    securityPolicy |-> FALSE ],
      oauth_clients |-> {}, url_map |-> doc ]

Init ==
    /\ \E d \in { "True", "False", "None" } :
         manifest = [ state |-> [ deployed |-> d, loadbalancer_configured |-> "None" ],
                      config |-> [ loadbalancer_path |-> None, loadbalancer_url |-> None ],
                      log |-> <<>> ]
    /\ \/ \E doc \in UrlMaps : cloud = FreshCloud(doc)
       \/ cloud = LegacyCloud(<< Matcher(ActiveMatcher, TRUE, <<>>) >>)
    /\ manifest.state.deployed # "True" =>
          cloud = FreshCloud(<< Matcher(ActiveMatcher, TRUE, <<>>) >>)
    /\ run = NoRun
    /\ pre = [ manifest |-> manifest, cloud |-> cloud ]
    /\ runs = 0
    /\ edit = NoEdit
    /\ hist = NoHist
    /\ init = NoInit

\* ---------------------------------------------------------------- helpers
Issue(r, cmd) == [ r EXCEPT !.calls = Append(@, cmd) ]
Return(r, val) == [ r EXCEPT !.pc = "done", !.result = val ]
FailStep(r) == [ Return(r, "False") EXCEPT !.failed = r.step ]
Raise(r) == Return(r, "raised")
Enter(r, step) == [ r EXCEPT !.step = step, !.pc = Entry(r.op, step) ]
StepDone(r) ==
    IF r.op = "add" THEN Enter(r, AddNext(r.step, r.use_host_rewrite))
    ELSE Enter(r, RemoveNext(r.step))

\* Positions at which the next statement is a subprocess.run of gcloud.
CommandPcs ==
    { "neg_describe", "neg_create", "oauth_create", "policy_describe",
      "policy_create", "policy_rule_create", "backend_describe",
      "backend_recreate_delete", "backend_attach", "backend_adopt_update",
      "backend_create", "backend_add_backend", "backend_update", "iap_grant",
      "run_describe", "urlmap_describe", "urlmap_import",
      "rm_urlmap_describe", "rm_urlmap_import", "rm_delete" }

\* Positions inside the `except Exception` block of create_backend_service,
\* lines 161-209.
InnerTryPcs == { "backend_recreate_delete", "backend_attach", "backend_adopt_update" }

\* ------------------------------------------------- add_to_loadbalancer
\* Lines 389-398: defaults, then the deployed check.
AddBegin ==
    /\ run.pc = "done"
    /\ runs < MaxRuns
    /\ \E arg \in PathArgs, hr \in BOOLEAN, g \in BOOLEAN :
         LET r == [ NoRun EXCEPT !.op = "add", !.path = AddPath(arg),
                                 !.use_host_rewrite = hr, !.gcloud = g ]
         IN run' = IF NotDeployed(manifest) THEN Return(r, "False")
                   ELSE [ r EXCEPT !.pc = "add_confirm" ]
    /\ pre' = [ manifest |-> manifest, cloud |-> cloud ]
    /\ runs' = runs + 1
    /\ UNCHANGED << manifest, cloud, edit, hist, init >>

\* Lines 412-415: the prompt.
AddConfirm ==
    /\ run.pc = "add_confirm"
    /\ \E response \in Responses :
         LET r == [ run EXCEPT !.response = response, !.prompted = TRUE ]
         IN run' = IF AddConfirmed(response) THEN Enter(r, AddOrder[1])
                   ELSE Return(r, "False")
    /\ UNCHANGED << manifest, cloud, pre, runs, edit, hist, init >>

\* subprocess.run when the gcloud executable is missing: FileNotFoundError.
\* Only the inner try of create_backend_service (except Exception) catches it.
CommandNotFound ==
    /\ run.pc \in CommandPcs
    /\ ~run.gcloud
    /\ run' = IF run.pc \in InnerTryPcs THEN FailStep(run) ELSE Raise(run)
    /\ UNCHANGED << manifest, cloud, pre, runs, edit, hist, init >>

\* create_serverless_neg, lines 32-40.
NegDescribe ==
    /\ run.pc = "neg_describe"
    /\ run.gcloud
    /\ LET r == Issue(run, "network-endpoint-groups describe")
           returncode == IF cloud.neg THEN 0 ELSE 1
       IN run' = IF AlreadyExists(returncode) THEN StepDone(r)
                 ELSE [ r EXCEPT !.pc = "neg_create" ]
    /\ UNCHANGED << manifest, cloud, pre, runs, edit, init >>
    /\ hist' = IF cloud.neg THEN [ hist EXCEPT !.neg_succeeded = @ + 1 ] ELSE hist

\* create_serverless_neg, lines 43-55.
NegCreate ==
    /\ run.pc = "neg_create"
    /\ run.gcloud
    /\ LET r == Issue(run, "network-endpoint-groups create")
       IN \E ok \in BOOLEAN :
            /\ ok => ~cloud.neg
            /\ cloud' = IF ok THEN [ cloud EXCEPT !.neg = TRUE ] ELSE cloud
            /\ run' = IF ok THEN StepDone([ r EXCEPT !.created = @ \cup { "neg" } ])
                      ELSE FailStep(r)
    /\ UNCHANGED << manifest, pre, runs, edit, init >>
    /\ hist' = IF run'.failed = "" THEN [ hist EXCEPT !.neg_succeeded = @ + 1 ] ELSE hist

\* create_iap_oauth_client, lines 61-95.
OAuthCreateDedup ==
    /\ run.pc = "oauth_create"
    /\ run.gcloud
    /\ IF cloud.oauth_clients # {}
       THEN run' = StepDone(run) /\ UNCHANGED cloud
       ELSE /\ cloud' = [ cloud EXCEPT !.oauth_clients = { 1 } ]
            /\ run' = StepDone([ Issue(run, "oauth-clients create") EXCEPT
                                   !.oauth_client = ParseOAuth([ name |-> "cid", secret |-> "sec" ]),
                                   !.created = @ \cup { "oauth" } ])
    /\ UNCHANGED << manifest, pre, runs, edit, init >>
    /\ hist' = IF cloud.oauth_clients # {} THEN hist
               ELSE [ hist EXCEPT !.oauth_creates = @ + 1 ]

OAuthCreateLenient ==
    /\ run.pc = "oauth_create"
    /\ run.gcloud
    /\ LET r == Issue(run, "oauth-clients create")
       IN \/ /\ run' = FailStep(r)
             /\ UNCHANGED cloud
          \/ \E stdout \in OAuthStdouts :
               LET client == ParseOAuth(stdout)
                   id == Cardinality(cloud.oauth_clients) + 1
               IN /\ cloud' = [ cloud EXCEPT !.oauth_clients = @ \cup { id } ]
                  /\ run' = IF client.client_id # "" \/ client.client_secret # ""
                            THEN StepDone([ r EXCEPT !.oauth_client = client,
                                                     !.created = @ \cup { "oauth" } ])
                            ELSE FailStep([ r EXCEPT !.created = @ \cup { "oauth" } ])
    /\ UNCHANGED << manifest, pre, runs, edit, init >>
    /\ hist' = [ hist EXCEPT !.oauth_creates = @ + 1 ]

OAuthCreate ==
    /\ run.pc = "oauth_create"
    /\ run.gcloud
    /\ LET r == Issue(run, "oauth-clients create")
       IN \/ /\ run' = FailStep(r)
             /\ UNCHANGED cloud
          \/ \E stdout \in OAuthStdouts :
               LET client == ParseOAuth(stdout)
                   id == Cardinality(cloud.oauth_clients) + 1
               IN /\ cloud' = [ cloud EXCEPT !.oauth_clients = @ \cup { id } ]
                  /\ run' = IF client.client_id # "" /\ client.client_secret # ""
                            THEN StepDone([ r EXCEPT !.oauth_client = client,
                                                     !.created = @ \cup { "oauth" } ])
                            ELSE FailStep([ r EXCEPT !.created = @ \cup { "oauth" } ])
    /\ UNCHANGED << manifest, pre, runs, edit, init >>
    /\ hist' = [ hist EXCEPT !.oauth_creates = @ + 1 ]

\* create_security_policy, lines 103-110.
PolicyDescribe ==
    /\ run.pc = "policy_describe"
    /\ run.gcloud
    /\ LET r == Issue(run, "security-policies describe")
           returncode == IF cloud.policy.exists THEN 0 ELSE 1
       IN run' = IF AlreadyExists(returncode) THEN StepDone(r)
                 ELSE [ r EXCEPT !.pc = "policy_create" ]
    /\ UNCHANGED << manifest, cloud, pre, runs, edit, hist, init >>

\* create_security_policy, lines 115-119.
PolicyCreate ==
    /\ run.pc = "policy_create"
    /\ run.gcloud
    /\ LET r == Issue(run, "security-policies create")
       IN \E ok \in BOOLEAN :
            /\ ok => ~cloud.policy.exists
            /\ cloud' = IF ok THEN [ cloud EXCEPT !.policy = [ exists |-> TRUE, rules |-> {} ] ]
                        ELSE cloud
            /\ run' = IF ok THEN [ r EXCEPT !.pc = "policy_rule_create",
                                            !.created = @ \cup { "policy" } ]
                      ELSE FailStep(r)
    /\ UNCHANGED << manifest, pre, runs, edit, hist, init >>

\* create_security_policy, lines 122-141.
PolicyRuleCreateUnchecked ==
    /\ run.pc = "policy_rule_create"
    /\ run.gcloud
    /\ \E ok \in BOOLEAN :
         /\ cloud' = IF ok THEN [ cloud EXCEPT !.policy.rules = @ \cup { ThrottlePriority } ]
                     ELSE cloud
         /\ run' = StepDone(Issue(run, "security-policies rules create"))
    /\ UNCHANGED << manifest, pre, runs, edit, hist, init >>
PolicyRuleCreate ==
    /\ run.pc = "policy_rule_create"
    /\ run.gcloud
    /\ LET r == Issue(run, "security-policies rules create")
       IN \E ok \in BOOLEAN :
            /\ cloud' = IF ok THEN [ cloud EXCEPT !.policy.rules = @ \cup { ThrottlePriority } ]
                        ELSE cloud
            /\ run' = IF ok THEN StepDone(r) ELSE FailStep(r)
    /\ UNCHANGED << manifest, pre, runs, edit, hist, init >>

\* create_backend_service, lines 151-209: the probe and, when the service
\* exists, the parse of its description and the choice of the branch.
BackendDescribe ==
    /\ run.pc = "backend_describe"
    /\ run.gcloud
    /\ LET r == Issue(run, "backend-services describe")
       IN IF ~cloud.backend.exists
          THEN run' = [ r EXCEPT !.pc = "backend_create" ]
          ELSE \E parses \in BOOLEAN :
                 run' = IF ~parses THEN FailStep(r)
                        ELSE LET branch == BackendBranch(cloud.backend)
                                 rr == [ r EXCEPT !.has_backends =
                                           IF cloud.backend.backends # {} THEN "True" ELSE "False" ]
                             IN CASE branch = "adopt" -> [ rr EXCEPT !.pc = "backend_adopt_update" ]
                                  [] branch = "recreate" -> [ rr EXCEPT !.pc = "backend_recreate_delete" ]
                                  [] branch = "attach" -> [ rr EXCEPT !.pc = "backend_attach" ]
    /\ UNCHANGED << manifest, cloud, pre, runs, edit, hist, init >>

\* create_backend_service, lines 173-180: delete of the service with a portName.
BackendRecreateDeleteUnchecked ==
    /\ run.pc = "backend_recreate_delete"
    /\ run.gcloud
    /\ \E ok \in BOOLEAN :
         /\ cloud' = IF ok THEN Delete(cloud, "backend") ELSE cloud
         /\ run' = [ Issue(run, "backend-services delete") EXCEPT !.pc = "backend_create" ]
    /\ UNCHANGED << manifest, pre, runs, edit, hist, init >>
BackendRecreateDelete ==
    /\ run.pc = "backend_recreate_delete"
    /\ run.gcloud
    /\ LET r == Issue(run, "backend-services delete")
       IN \E ok \in BOOLEAN :
            /\ cloud' = IF ok THEN Delete(cloud, "backend") ELSE cloud
            /\ run' = IF ok THEN [ r EXCEPT !.pc = "backend_create" ] ELSE FailStep(r)
    /\ UNCHANGED << manifest, pre, runs, edit, hist, init >>

\* create_backend_service, lines 183-196: NEG added to the existing service.
BackendAttachUnchecked ==
    /\ run.pc = "backend_attach"
    /\ run.gcloud
    /\ \E ok \in BOOLEAN :
         /\ cloud' = IF ok THEN [ cloud EXCEPT !.backend.backends = @ \cup { NegName } ]
                     ELSE cloud
         /\ run' = StepDone(Issue(run, "backend-services add-backend"))
    /\ UNCHANGED << manifest, pre, runs, edit, hist, init >>
BackendAttach ==
    /\ run.pc = "backend_attach"
    /\ run.gcloud
    /\ LET r == Issue(run, "backend-services add-backend")
       IN \E ok \in BOOLEAN :
            /\ cloud' = IF ok THEN [ cloud EXCEPT !.backend.backends = @ \cup { NegName } ]
                        ELSE cloud
            /\ run' = IF ok THEN StepDone(r) ELSE FailStep(r)
    /\ UNCHANGED << manifest, pre, runs, edit, hist, init >>

\* create_backend_service, lines 199-205: check=False, the exit code is ignored.
BackendAdoptUpdate ==
    /\ run.pc = "backend_adopt_update"
    /\ run.gcloud
    /\ LET r == Issue(run, "backend-services update")
       IN \E ok \in BOOLEAN :
            /\ ok => cloud.policy.exists
            /\ cloud' = IF ok THEN [ cloud EXCEPT !.backend.securityPolicy = TRUE ]
                        ELSE cloud
            /\ run' = StepDone(r)
    /\ UNCHANGED << manifest, pre, runs, edit, hist, init >>

\* create_backend_service, lines 214-224.
BackendCreate ==
    /\ run.pc = "backend_create"
    /\ run.gcloud
    /\ LET r == Issue(run, "backend-services create")
       IN \E ok \in BOOLEAN :
            /\ ok => ~cloud.backend.exists
            /\ cloud' = IF ok THEN [ cloud EXCEPT !.backend = [ NoBackend EXCEPT !.exists = TRUE ] ]
                        ELSE cloud
            /\ run' = IF ok THEN [ r EXCEPT !.pc = "backend_add_backend",
                                            !.created = @ \cup { "backend" } ]
                      ELSE FailStep(r)
    /\ UNCHANGED << manifest, pre, runs, edit, hist, init >>

\* create_backend_service, lines 227-233.
BackendAddBackendUnchecked ==
    /\ run.pc = "backend_add_backend"
    /\ run.gcloud
    /\ \E ok \in BOOLEAN :
         /\ cloud' = IF ok THEN [ cloud EXCEPT !.backend.backends = @ \cup { NegName } ]
                     ELSE cloud
         /\ run' = [ Issue(run, "backend-services add-backend") EXCEPT !.pc = "backend_update" ]
    /\ UNCHANGED << manifest, pre, runs, edit, hist, init >>
BackendAddBackend ==
    /\ run.pc = "backend_add_backend"
    /\ run.gcloud
    /\ LET r == Issue(run, "backend-services add-backend")
       IN \E ok \in BOOLEAN :
            /\ cloud' = IF ok THEN [ cloud EXCEPT !.backend.backends = @ \cup { NegName } ]
                        ELSE cloud
            /\ run' = IF ok THEN [ r EXCEPT !.pc = "backend_update" ] ELSE FailStep(r)
    /\ UNCHANGED << manifest, pre, runs, edit, hist, init >>

\* create_backend_service, lines 237-249.
BackendUpdateUnchecked ==
    /\ run.pc = "backend_update"
    /\ run.gcloud
    /\ \E ok \in BOOLEAN :
         /\ ok => cloud.policy.exists
         /\ cloud' = IF ok THEN [ cloud EXCEPT !.backend.securityPolicy = TRUE ]
                     ELSE cloud
         /\ run' = StepDone(Issue(run, "backend-services update"))
    /\ UNCHANGED << manifest, pre, runs, edit, hist, init >>
BackendUpdate ==
    /\ run.pc = "backend_update"
    /\ run.gcloud
    /\ LET r == Issue(run, "backend-services update")
       IN \E ok \in BOOLEAN :
            /\ ok => cloud.policy.exists
            /\ cloud' = IF ok THEN [ cloud EXCEPT !.backend.securityPolicy = TRUE ]
                        ELSE cloud
            /\ run' = IF ok THEN StepDone(r) ELSE FailStep(r)
    /\ UNCHANGED << manifest, pre, runs, edit, hist, init >>

\* grant_iap_access, lines 253-264: check=False, always True.
IapGrantChecked ==
    /\ run.pc = "iap_grant"
    /\ run.gcloud
    /\ \E returncode \in { "zero", "non-zero" } :
         LET r == [ Issue(run, "iap web add-iam-policy-binding") EXCEPT
                      !.iap_returncode = returncode ]
         IN run' = IF returncode = "zero" THEN StepDone(r) ELSE FailStep(r)
    /\ UNCHANGED << manifest, cloud, pre, runs, edit, hist, init >>
IapGrant ==
    /\ run.pc = "iap_grant"
    /\ run.gcloud
    /\ \E returncode \in { "zero", "non-zero" } :
         run' = StepDone([ Issue(run, "iap web add-iam-policy-binding") EXCEPT
                             !.iap_returncode = returncode ])
    /\ UNCHANGED << manifest, cloud, pre, runs, edit, hist, init >>

\* get_cloud_run_url, lines 354-371: the hostname, or None when the command
\* fails, its output is no JSON, or the service has no url.
RunDescribe ==
    /\ run.pc = "run_describe"
    /\ run.gcloud
    /\ \E url \in { "", "a-xyz.a.run.app" } :
         run' = StepDone([ Issue(run, "run services describe") EXCEPT !.cloud_run_url = url ])
    /\ UNCHANGED << manifest, cloud, pre, runs, edit, hist, init >>

\* add_path_rule, lines 275-332: fetch, parse, append the rule, write the file.
UrlMapDescribe ==
    /\ run.pc = "urlmap_describe"
    /\ run.gcloud
    /\ LET r == Issue(run, "url-maps describe")
       IN \E outcome \in { "nonzero", "malformed", "json" } :
            run' = IF outcome # "json" THEN FailStep(r)
                   ELSE LET scan == AddScan(cloud.url_map, 1,
                                        Rule(run.path, BackendName, run.cloud_run_url))
                        IN IF scan.raised THEN Raise(r)
                           ELSE [ r EXCEPT !.url_map = scan.matchers, !.pc = "urlmap_import" ]
    /\ UNCHANGED << manifest, cloud, pre, runs, edit, hist, init >>

\* add_path_rule, lines 335-347: the import replaces the whole document.
UrlMapImportUnchecked ==
    /\ run.pc = "urlmap_import"
    /\ run.gcloud
    /\ \E ok \in BOOLEAN :
         /\ cloud' = IF ok THEN [ cloud EXCEPT !.url_map = run.url_map ] ELSE cloud
         /\ run' = StepDone(Issue(run, "url-maps import"))
    /\ UNCHANGED << manifest, pre, runs, edit, hist, init >>
UrlMapImport ==
    /\ run.pc = "urlmap_import"
    /\ run.gcloud
    /\ LET r == Issue(run, "url-maps import")
       IN \E ok \in BOOLEAN :
            /\ cloud' = IF ok THEN [ cloud EXCEPT !.url_map = run.url_map ] ELSE cloud
            /\ run' = IF ok THEN StepDone(r) ELSE FailStep(r)
    /\ UNCHANGED << manifest, pre, runs, edit, hist, init >>

\* add_to_loadbalancer, lines 447-470.
AddManifest ==
    /\ run.pc = "add_manifest"
    /\ manifest' = AddManifestUpdate(manifest, run.path)
    /\ run' = Return(run, "True")
    /\ UNCHANGED << cloud, pre, runs, edit, hist, init >>

\* --------------------------------------------- remove_from_loadbalancer
\* Lines 480-486: defaults; the prompt is skipped with skip_confirmation.
RemoveBegin ==
    /\ run.pc = "done"
    /\ runs < MaxRuns
    /\ \E arg \in PathArgs, skip \in BOOLEAN, g \in BOOLEAN :
         LET r == [ NoRun EXCEPT !.op = "remove", !.path = RemovePath(arg, manifest),
                                 !.skip_confirmation = skip, !.gcloud = g ]
         IN run' = IF skip THEN Enter(r, RemoveOrder[1])
                   ELSE [ r EXCEPT !.pc = "rm_confirm" ]
    /\ pre' = [ manifest |-> manifest, cloud |-> cloud ]
    /\ runs' = runs + 1
    /\ UNCHANGED << manifest, cloud, edit, hist, init >>

\* Lines 499-502: the prompt.
RemoveConfirm ==
    /\ run.pc = "rm_confirm"
    /\ \E response \in Responses :
         LET r == [ run EXCEPT !.response = response, !.prompted = TRUE ]
         IN run' = IF RemoveConfirmed(response) THEN Enter(r, RemoveOrder[1])
                   ELSE Return(r, "False")
    /\ UNCHANGED << manifest, cloud, pre, runs, edit, hist, init >>

\* Lines 505-545 and 556-557: fetch, parse, filter the rules, write the file.
\* A non-zero exit and malformed JSON are caught and the teardown goes on.
RemoveUrlMapDescribe ==
    /\ run.pc = "rm_urlmap_describe"
    /\ run.gcloud
    /\ LET r == Issue(run, "url-maps describe")
       IN \E outcome \in { "nonzero", "malformed", "json" } :
            run' = IF outcome # "json" THEN StepDone(r)
                   ELSE LET scan == RemoveScan(cloud.url_map, run.path)
                        IN IF scan.raised THEN Raise(r)
                           ELSE [ r EXCEPT !.url_map = scan.matchers, !.pc = "rm_urlmap_import" ]
    /\ UNCHANGED << manifest, cloud, pre, runs, edit, hist, init >>

\* Lines 547-557: check=True, the failure is caught as a warning.
RemoveUrlMapImport ==
    /\ run.pc = "rm_urlmap_import"
    /\ run.gcloud
    /\ LET r == Issue(run, "url-maps import")
       IN \E ok \in BOOLEAN :
            /\ cloud' = IF ok THEN [ cloud EXCEPT !.url_map = run.url_map ] ELSE cloud
            /\ run' = StepDone(r)
    /\ UNCHANGED << manifest, pre, runs, edit, hist, init >>

\* Lines 559-595: the delete of the resource of the current step, check=False.
RemoveDelete ==
    /\ run.pc = "rm_delete"
    /\ run.gcloud
    /\ LET r == Issue(run, DeleteCmd(run.step))
       IN \E ok \in BOOLEAN :
            /\ ok => Exists(cloud, run.step)
            /\ cloud' = IF ok THEN Delete(cloud, run.step) ELSE cloud
            /\ run' = StepDone(r)
    /\ UNCHANGED << manifest, pre, runs, edit, hist, init >>

\* Lines 597-614.
RemoveManifest ==
    /\ run.pc = "rm_manifest"
    /\ manifest' = RemoveManifestUpdate(manifest, run.path)
    /\ run' = Return(run, "True")
    /\ UNCHANGED << cloud, pre, runs, edit, hist, init >>

\* ------------------------------------- GitHubManager.delete_repository
\* github_utils.py, line 63: the command starts with get_repo_name.
DeleteRepositoryBegin ==
    /\ run.pc = "done"
    /\ runs < MaxRuns
    /\ \E g \in BOOLEAN :
         run' = [ NoRun EXCEPT !.op = "delete_repository", !.pc = "gh_repo_view", !.gh = g ]
    /\ pre' = [ manifest |-> manifest, cloud |-> cloud ]
    /\ runs' = runs + 1
    /\ UNCHANGED << manifest, cloud, edit, hist, init >>

\* get_repo_name, lines 18-30, called at line 65 outside the try of
\* delete_repository: only CalledProcessError is caught, so the
\* FileNotFoundError of a missing gh leaves both functions.  Lines 67-69:
\* no name (non-zero exit, or empty output) returns False.
GhRepoView ==
    /\ run.pc = "gh_repo_view"
    /\ IF ~run.gh
       THEN run' = Raise(run)
       ELSE LET r == Issue(run, "gh repo view")
            IN \E stdout \in { "nonzero exit", "", "owner/a" } :
                 run' = IF stdout \in { "nonzero exit", "" }
                        THEN Return([ r EXCEPT !.message = "no repository name" ], "False")
                        ELSE [ r EXCEPT !.pc = "gh_delete_yes" ]
    /\ UNCHANGED << manifest, cloud, pre, runs, edit, hist, init >>

\* delete_repository, lines 71-82 and 101-103: gh repo delete --yes.
GhDeleteYes ==
    /\ run.pc = "gh_delete_yes"
    /\ IF ~run.gh
       THEN run' = Return([ run EXCEPT !.message = "not installed" ], "False")
       ELSE LET r == Issue(run, "gh repo delete --yes")
            IN \E ok \in BOOLEAN :
                 run' = IF ok THEN Return(r, "True")
                        ELSE [ r EXCEPT !.pc = "gh_delete_confirm" ]
    /\ UNCHANGED << manifest, cloud, pre, runs, edit, hist, init >>

\* delete_repository, lines 82-103: the retry with --confirm.
GhDeleteConfirm ==
    /\ run.pc = "gh_delete_confirm"
    /\ IF ~run.gh
       THEN run' = Return([ run EXCEPT !.message = "not installed" ], "False")
       ELSE LET r == Issue(run, "gh repo delete --confirm")
            IN \E ok \in BOOLEAN :
                 run' = IF ok THEN Return(r, "True")
                        ELSE Return([ r EXCEPT !.message = "error deleting" ], "False")
    /\ UNCHANGED << manifest, cloud, pre, runs, edit, hist, init >>

\* ------------------------------- concurrent cycles on the shared URL map
\* Each editor is one process running add_path_rule (lines 269-350) or the
\* rule removal of remove_from_loadbalancer (lines 505-557): describe, patch
\* in memory, import.  Nothing orders the commands of different processes.
\* The number of cycles started so far, over all editors.
Cycles == edit.ed[1].cycles + edit.ed[2].cycles

EditFinish(e, res) ==
    [ e EXCEPT !.pc = "done", !.result = res, !.prior = NoPrior ]

EditBegin(e) ==
    /\ edit.ed[e].pc = "done"
    /\ Cycles < MaxCycles
    /\ \E op \in { "add", "remove" }, path \in EditPaths :
         edit' = [ edit EXCEPT !.ed[e] =
                     [ @ EXCEPT !.op = op, !.pc = "describe", !.path = path,
                                !.result = "none", !.cycles = @ + 1,
                                !.roundtrip = FALSE, !.fetched = NoDoc,
                                !.file = NoDoc ] ]
    /\ UNCHANGED << manifest, cloud, run, pre, runs, hist, init >>

\* Lines 275-332 (add) and 509-545 (remove): fetch, parse, patch, strip, write.
EditDescribe(e) ==
    /\ edit.ed[e].pc = "describe"
    /\ LET me == edit.ed[e]
       IN \E outcome \in { "nonzero", "malformed", "json" } :
            edit' = [ edit EXCEPT !.ed[e] =
              IF outcome # "json" THEN EditFinish(me, "False")
              ELSE LET cyc == IF me.op = "add" THEN AddCycle(edit.doc, me.path, "")
                              ELSE RemoveCycle(edit.doc, me.path)
                   IN IF cyc.raised THEN EditFinish(me, "raised")
                      ELSE [ me EXCEPT !.pc = "import",
                                       !.fetched = edit.doc,
                                       !.file = cyc.file,
                                       !.roundtrip = /\ me.op = "remove"
                                                     /\ me.prior.valid
                                                     /\ me.prior.path = me.path
                                                     /\ edit.doc.pathMatchers = me.prior.after ] ]
    /\ UNCHANGED << manifest, cloud, run, pre, runs, hist, init >>

\* Lines 335-343 (add) and 547-554 (remove): the import replaces the document.
EditImport(e) ==
    /\ edit.ed[e].pc = "import"
    /\ LET me == edit.ed[e]
       IN \E ok \in BOOLEAN :
            edit' = IF ~ok THEN [ edit EXCEPT !.ed[e] = EditFinish(me, "False") ]
                    ELSE [ doc |-> Import(edit.doc, me.file),
                           imports |-> edit.imports + 1,
                           ed |-> [ edit.ed EXCEPT ![e] =
                              [ me EXCEPT !.pc = "done", !.result = "True",
                                          !.order = edit.imports + 1,
                                          !.prior = IF me.op = "add"
                                                    THEN [ valid |-> TRUE, path |-> me.path,
                                                           before |-> me.fetched.pathMatchers,
                                                           after |-> me.file.pathMatchers ]
                                                    ELSE [ me.prior EXCEPT !.valid = FALSE ] ] ] ]
    /\ UNCHANGED << manifest, cloud, run, pre, runs, hist, init >>

InitEdit ==
    /\ manifest = [ state |-> [ deployed |-> "True", loadbalancer_configured |-> "None" ],
                    config |-> [ loadbalancer_path |-> None, loadbalancer_url |-> None ],
                    log |-> <<>> ]
    /\ cloud = FreshCloud(<<>>)
    /\ run = NoRun
    /\ pre = [ manifest |-> manifest, cloud |-> cloud ]
    /\ runs = 0
    /\ \E d \in EditDocs : edit = [ NoEdit EXCEPT !.doc = d ]
    /\ hist = NoHist
    /\ init = NoInit

NextEdit ==
    \/ \E e \in Editors : EditBegin(e)
    \/ \E e \in Editors : EditDescribe(e)
    \/ \E e \in Editors : EditImport(e)

SpecEdit == InitEdit /\ [][NextEdit]_vars

\* ============================================================ InitManager
\* Local initialization (init.py): one action per prompt, step or command of
\* InitManager.initialize.
InitReturn(i, val) == [ i EXCEPT !.pc = "done", !.result = val ]
InitEnter(i, step) == [ i EXCEPT !.pc = step, !.steps = Append(@, step) ]

\* A step of initialize returned True: lines 409-427 go on to the next one,
\* and to the manifest writes of line 430 after the last.
InitPassed(i) ==
    LET k == Len(i.steps)
        j == [ i EXCEPT !.passed = Append(@, i.steps[k]) ]
    IN IF k < Len(InitOrder) THEN InitEnter(j, InitOrder[k + 1])
       ELSE [ j EXCEPT !.pc = "manifest" ]

\* check_and_install_dependencies, line 144.
InstallConfirmed(response) == Lower(response) \in { <<"y">>, <<"y", "e", "s">> }

\* initialize, lines 396-402: the call and the test of `initialized`.
InitializeBegin ==
    /\ init.pc = "done"
    /\ runs < MaxInits
    /\ \E skip_frontend_build \in BOOLEAN :
         LET i == [ init EXCEPT !.skip_frontend_build = skip_frontend_build,
                                !.prompted = FALSE, !.python_ok = "none",
                                !.todo = <<>>, !.prompts = 0,
                                !.steps = <<>>, !.passed = <<>>, !.calls = <<>>,
                                !.result = "none" ]
         IN init' = IF Truthy(manifest.state.initialized)
                    THEN [ i EXCEPT !.pc = "reinit_prompt" ]
                    ELSE InitEnter(i, InitOrder[1])
    /\ pre' = [ manifest |-> manifest, cloud |-> cloud ]
    /\ runs' = runs + 1
    /\ UNCHANGED << manifest, cloud, run, edit, hist >>

\* initialize, lines 404-406: the re-initialize prompt.
ReinitializePrompt ==
    /\ init.pc = "reinit_prompt"
    /\ \E response \in Responses :
         LET i == [ init EXCEPT !.prompted = TRUE ]
         IN init' = IF Reinitialize(response) THEN InitEnter(i, InitOrder[1])
                    ELSE InitReturn(i, "False")
    /\ UNCHANGED << manifest, cloud, run, pre, runs, edit, hist >>

\* check_and_install_dependencies, lines 92-142 and 171-177: the checks, also
\* when re-entered from line 165.
CheckDependencies ==
    /\ init.pc = "dependencies"
    /\ LET missing == missing_required(init)
           python_ok == check_python_version(init.version[1], init.version[2])
           i == [ init EXCEPT !.python_ok = IF python_ok THEN "True" ELSE "False" ]
       IN init' = IF missing = <<>> THEN InitPassed(i)
                  ELSE IF i.is_mac
                       THEN [ i EXCEPT !.pc = "deps_prompt", !.todo = missing ]
                       ELSE InitReturn(i, "False")
    /\ UNCHANGED << manifest, cloud, run, pre, runs, edit, hist >>

\* check_and_install_dependencies, lines 143-144 and 166-170: the prompt.
DependenciesPrompt ==
    /\ init.pc = "deps_prompt"
    /\ init.prompts < MaxPrompts
    /\ \E response \in Responses :
         init' = IF InstallConfirmed(response)
                 THEN [ init EXCEPT !.pc = "deps_install", !.prompts = @ + 1 ]
                 ELSE InitReturn(init, "False")
    /\ UNCHANGED << manifest, cloud, run, pre, runs, edit, hist >>

\* check_and_install_dependencies, lines 145-165: one turn of the install
\* loop, or the re-check after its last turn.
InstallMissing ==
    /\ init.pc = "deps_install"
    /\ \/ /\ init.todo = <<>>
          /\ init' = [ init EXCEPT !.pc = "dependencies" ]
       \/ /\ init.todo # <<>>
          /\ \E returncode \in { 0, 1 }, curl_returncode \in { 0, 1 }, on_path \in BOOLEAN :
               LET cmd == Head(init.todo)
               IN init' = IF Install(init, cmd, returncode, curl_returncode)
                          THEN [ init EXCEPT !.todo = Tail(@),
                                             !.PATH = IF on_path THEN @ \cup Provides(cmd)
                                                      ELSE @ ]
                          ELSE InitReturn(init, "False")
    /\ UNCHANGED << manifest, cloud, run, pre, runs, edit, hist >>

\* initialize, line 414: config.ensure_env_file(); its result is not looked at.
EnsureEnvFile ==
    /\ init.pc = "env_file"
    /\ init' = InitPassed(init)
    /\ UNCHANGED << manifest, cloud, run, pre, runs, edit, hist >>

\* update_project_files, lines 219-244: any exception of the file reads and
\* writes is caught and returned as False.
UpdateProjectFiles ==
    /\ init.pc = "project_files"
    /\ \E exception \in BOOLEAN :
         init' = IF exception THEN InitReturn(init, "False") ELSE InitPassed(init)
    /\ UNCHANGED << manifest, cloud, run, pre, runs, edit, hist >>

\* setup_frontend, lines 248-358: the directory and, when package.json is
\* missing, the files of the Vite application.  An OSError of mkdir or
\* write_text is not a CalledProcessError: line 378 does not catch it.
SetupFrontend ==
    /\ init.pc = "frontend"
    /\ \/ /\ init.package_json
          /\ init' = IF init.skip_frontend_build THEN InitPassed(init)
                     ELSE [ init EXCEPT !.pc = "npm_build" ]
       \/ /\ ~init.package_json
          /\ \E oserror \in BOOLEAN, written \in BOOLEAN :
               init' = IF oserror
                       THEN [ InitReturn(init, "raised") EXCEPT !.package_json = written ]
                       ELSE [ init EXCEPT !.package_json = TRUE, !.pc = "npm_install" ]
    /\ UNCHANGED << manifest, cloud, run, pre, runs, edit, hist >>

\* setup_frontend, lines 362-366.
NpmInstall ==
    /\ init.pc = "npm_install"
    /\ \E returncode \in { 0, 1 } :
         LET i == [ init EXCEPT !.calls = Append(@, << "npm install", returncode >>) ]
         IN init' = IF returncode # 0 THEN InitReturn(i, "False")
                    ELSE IF i.skip_frontend_build THEN InitPassed(i)
                    ELSE [ i EXCEPT !.pc = "npm_build" ]
    /\ UNCHANGED << manifest, cloud, run, pre, runs, edit, hist >>

\* setup_frontend, lines 259-265 and 368-374.
NpmBuild ==
    /\ init.pc = "npm_build"
    /\ \E returncode \in { 0, 1 } :
         LET i == [ init EXCEPT !.calls = Append(@, << "npm run build", returncode >>) ]
         IN init' = IF returncode # 0 THEN InitReturn(i, "False") ELSE InitPassed(i)
    /\ UNCHANGED << manifest, cloud, run, pre, runs, edit, hist >>

\* setup_backend, lines 382-394.
SetupBackendUnchecked ==
    /\ init.pc = "backend"
    /\ \E returncode \in { 0, 1 } :
         init' = InitPassed([ init EXCEPT !.calls = Append(@, << "uv sync", returncode >>) ])
    /\ UNCHANGED << manifest, cloud, run, pre, runs, edit, hist >>
SetupBackend ==
    /\ init.pc = "backend"
    /\ \E returncode \in { 0, 1 } :
         LET i == [ init EXCEPT !.calls = Append(@, << "uv sync", returncode >>) ]
         IN init' = IF returncode # 0 THEN InitReturn(i, "False") ELSE InitPassed(i)
    /\ UNCHANGED << manifest, cloud, run, pre, runs, edit, hist >>

\* initialize, lines 430-443.
InitializeManifest ==
    /\ init.pc = "manifest"
    /\ manifest' = InitManifestUpdate(manifest)
    /\ init' = InitReturn(init, "True")
    /\ UNCHANGED << cloud, run, pre, runs, edit, hist >>

\* The machine initialize runs on and the manifest it finds: a project that
\* was never initialized, or one a completed run has marked.
InitInit ==
    /\ \E initialized \in { "True", "False", "None" } :
         manifest = [ state |-> [ initialized |-> initialized, deployed |-> "None",
                                  loadbalancer_configured |-> "None" ],
                      config |-> [ project_name |-> IF initialized = "True"
                                                    THEN project_name ELSE None,
                                   loadbalancer_path |-> None,
                                   loadbalancer_url |-> None ],
                      log |-> IF initialized = "True"
                              THEN << [ operation |-> "init", type |-> "local" ] >>
                              ELSE <<>> ]
    /\ cloud = FreshCloud(<<>>)
    /\ run = NoRun
    /\ pre = [ manifest |-> manifest, cloud |-> cloud ]
    /\ runs = 0
    /\ edit = NoEdit
    /\ hist = NoHist
    /\ \E is_mac \in BOOLEAN, PATH \in SUBSET Commands, major \in Majors, minor \in Minors,
          package_json \in BOOLEAN :
         /\ "brew" \in PATH => is_mac
         /\ init = [ NoInit EXCEPT !.is_mac = is_mac, !.PATH = PATH,
                                   !.version = << major, minor >>,
                                   !.package_json = package_json ]

NextInit ==
    \/ InitializeBegin
    \/ ReinitializePrompt
    \/ CheckDependencies
    \/ DependenciesPrompt
    \/ InstallMissing
    \/ EnsureEnvFile
    \/ UpdateProjectFiles
    \/ SetupFrontend
    \/ NpmInstall
    \/ NpmBuild
    \/ SetupBackend
    \/ InitializeManifest

SpecInit == InitInit /\ [][NextInit]_vars

\* ---------------------------------------------------------- specification
Next ==
    \/ AddBegin
    \/ AddConfirm
    \/ CommandNotFound
    \/ NegDescribe
    \/ NegCreate
    \/ OAuthCreate
    \/ PolicyDescribe
    \/ PolicyCreate
    \/ PolicyRuleCreate
    \/ BackendDescribe
    \/ BackendRecreateDelete
    \/ BackendAttach
    \/ BackendAdoptUpdate
    \/ BackendCreate
    \/ BackendAddBackend
    \/ BackendUpdate
    \/ IapGrant
    \/ RunDescribe
    \/ UrlMapDescribe
    \/ UrlMapImport
    \/ AddManifest
    \/ RemoveBegin
    \/ RemoveConfirm
    \/ RemoveUrlMapDescribe
    \/ RemoveUrlMapImport
    \/ RemoveDelete
    \/ RemoveManifest
    \/ DeleteRepositoryBegin
    \/ GhRepoView
    \/ GhDeleteYes
    \/ GhDeleteConfirm

Spec == Init /\ [][Next]_vars

\* ================================================================ claims
\* Vocabulary of the claims, stated on the commands a run has issued.
IsIn(seq, x) == \E i \in DOMAIN seq : seq[i] = x
Count(seq, x) == Cardinality({ i \in DOMAIN seq : seq[i] = x })
IsPrefix(s, t) == Len(s) <= Len(t) /\ SubSeq(t, 1, Len(s)) = s

\* The step of add_to_loadbalancer a command belongs to, 1 to 7.
AddRank(cmd) ==
    CASE cmd \in { "network-endpoint-groups describe", "network-endpoint-groups create" } -> 1
      [] cmd = "oauth-clients create" -> 2
      [] cmd \in { "security-policies describe", "security-policies create",
                   "security-policies rules create" } -> 3
      [] cmd \in { "backend-services describe", "backend-services delete",
                   "backend-services add-backend", "backend-services update",
                   "backend-services create" } -> 4
      [] cmd = "iap web add-iam-policy-binding" -> 5
      [] cmd = "run services describe" -> 6
      [] cmd \in { "url-maps describe", "url-maps import" } -> 7
      [] OTHER -> 99

StepRank(step) ==
    CASE step = "neg" -> 1 [] step = "oauth" -> 2 [] step = "policy" -> 3
      [] step = "backend" -> 4 [] step = "iap" -> 5 [] step = "hostname" -> 6
      [] step = "urlmap" -> 7 [] OTHER -> 8

IsBackendCmd(cmd) == AddRank(cmd) = 4
Cancelled == run.pc = "done" /\ run.result = "False" /\ run.step = ""
Untouched == manifest = pre.manifest /\ cloud = pre.cloud

\* C1: an add run with manifest state `deployed` false or absent returns
\* failure without prompting, without any external command and without
\* writing the manifest.
C1_NotDeployedFailsFast ==
    (run.op = "add" /\ pre.manifest.state.deployed # "True")
        => /\ run.pc = "done"
           /\ run.result = "False"
           /\ ~run.prompted
           /\ run.calls = <<>>
           /\ Untouched

C1_Witness ==
    /\ run.op = "add"
    /\ pre.manifest.state.deployed = "None"
    /\ run.result = "False"

\* C2: the commands of an add run follow the step order NEG, OAuth client,
\* security policy, backend service, IAP grant, optional hostname lookup,
\* URL map, with no step skipped; once a step has returned failure the run
\* has returned failure, no command of a later step was issued, and every
\* resource the run created still exists.
C2_AddStepsInOrder ==
    run.op = "add" =>
        /\ \A i, j \in DOMAIN run.calls :
             i < j => AddRank(run.calls[i]) <= AddRank(run.calls[j])
        /\ \A j \in DOMAIN run.calls : \A k \in 1..(AddRank(run.calls[j]) - 1) :
             (k # 6 \/ run.use_host_rewrite)
                 => \E i \in 1..(j - 1) : AddRank(run.calls[i]) = k
        /\ \A j \in DOMAIN run.calls :
             AddRank(run.calls[j]) = 6 => run.use_host_rewrite
        /\ run.failed # "" =>
             /\ run.pc = "done" /\ run.result = "False"
             /\ \A j \in DOMAIN run.calls : AddRank(run.calls[j]) <= StepRank(run.failed)
        /\ \A kind \in run.created : Exists(cloud, kind)
        /\ \A j \in DOMAIN run.calls :
             run.calls[j] \notin { "network-endpoint-groups delete",
                                   "security-policies delete", "oauth-clients delete" }

C2_Witness ==
    /\ run.op = "add"
    /\ run.failed = "backend"
    /\ { "neg", "oauth", "policy" } \subseteq run.created

\* C3: an add run writes the manifest exactly when it returns success: then
\* loadbalancer_configured is true, path and url are set and one
\* loadbalancer_add entry is appended, and no command follows the write;
\* in every other case the manifest is as it was before the run.
C3_ManifestWrittenIffSuccess ==
    run.op = "add" =>
        IF run.result = "True"
        THEN /\ run.pc = "done"
             /\ manifest.state = [ pre.manifest.state EXCEPT !.loadbalancer_configured = "True" ]
             /\ manifest.config.loadbalancer_path = run.path
             /\ manifest.config.loadbalancer_url = << "https://", DOMAIN_NAME >> \o run.path
             /\ Len(manifest.log) = Len(pre.manifest.log) + 1
             /\ SubSeq(manifest.log, 1, Len(pre.manifest.log)) = pre.manifest.log
             /\ manifest.log[Len(manifest.log)].operation = "loadbalancer_add"
             /\ run.calls[Len(run.calls)] = "url-maps import"
        ELSE manifest = pre.manifest

C3_Witness ==
    /\ run.op = "add"
    /\ run.result = "True"
    /\ pre.manifest.log # <<>>

\* C4: a remove run that prompts and reads "y" is cancelled, with no command
\* issued and manifest and cloud unchanged; one that reads "yes" enters the
\* teardown steps.
C4_RemoveNeedsYes ==
    (run.op = "remove" /\ run.prompted) =>
        /\ run.response = <<"y">> =>
             Cancelled /\ run.calls = <<>> /\ Untouched
        /\ run.response = <<"y", "e", "s">> =>
             run.step \in { "urlmap", "backend", "neg", "policy", "manifest" }

C4_Witness ==
    /\ run.op = "remove"
    /\ run.prompted
    /\ run.response = <<"y">>
    /\ cloud.backend.exists

\* The spellings of "yes" and of "y" in any letter case.
YesAnyCase ==
    { s \in Responses : /\ Len(s) = 3
                        /\ s[1] \in { "y", "Y" }
                        /\ s[2] \in { "e", "E" }
                        /\ s[3] \in { "s", "S" } }
YAnyCase == { s \in Responses : Len(s) = 1 /\ s[1] \in { "y", "Y" } }

\* C5 as stated: a remove run that prompts proceeds only when the line is
\* exactly `yes`, every other line (also `YES`, `Yes`) cancels it; an add run
\* proceeds iff the lower-cased line is `y` or `yes`.
C5_StrictExactYes ==
    /\ (run.op = "remove" /\ run.prompted) =>
         IF run.response = <<"y", "e", "s">>
         THEN ~Cancelled
         ELSE Cancelled /\ run.calls = <<>> /\ Untouched
    /\ (run.op = "add" /\ run.prompted) =>
         IF run.response \in YesAnyCase \cup YAnyCase
         THEN ~Cancelled
         ELSE Cancelled /\ run.calls = <<>> /\ Untouched

\* C5 amended: a remove run that prompts proceeds iff the line is `yes` in
\* any letter case (`yes`, `YES`, `Yes`), and is cancelled with no command
\* for every other line, also `y`; an add run proceeds iff the line is `y`
\* or `yes` in any letter case.
C5_YesAnyCase ==
    /\ (run.op = "remove" /\ run.prompted) =>
         IF run.response \in YesAnyCase
         THEN ~Cancelled /\ run.step # ""
         ELSE Cancelled /\ run.calls = <<>> /\ Untouched
    /\ (run.op = "add" /\ run.prompted) =>
         IF run.response \in YesAnyCase \cup YAnyCase
         THEN ~Cancelled /\ run.step # ""
         ELSE Cancelled /\ run.calls = <<>> /\ Untouched

C5_Witness ==
    /\ run.op = "remove"
    /\ run.prompted
    /\ run.response = <<"Y", "E", "S">>
    /\ IsIn(run.calls, "backend-services delete")

\* The two command sequences of a teardown that ran to its end: with the
\* import, or without it when the describe failed or its output was no JSON.
TeardownWithImport ==
    << "url-maps describe", "url-maps import", "backend-services delete",
       "network-endpoint-groups delete", "security-policies delete" >>
TeardownWithoutImport ==
    << "url-maps describe", "backend-services delete",
       "network-endpoint-groups delete", "security-policies delete" >>

\* C6: in a remove run that passed the prompt (or skipped it) and in which no
\* exception escaped, the commands issued are the teardown in the order URL
\* map, backend service, NEG, security policy, and a run that returned has
\* attempted all four, whichever of them failed.
C6_TeardownAttemptsAll ==
    (run.op = "remove" /\ run.step # "" /\ run.result # "raised") =>
        /\ \/ IsPrefix(run.calls, TeardownWithImport)
           \/ IsPrefix(run.calls, TeardownWithoutImport)
        /\ run.step = "backend" => IsIn(run.calls, "url-maps describe")
        /\ run.step = "neg" => IsIn(run.calls, "backend-services delete")
        /\ run.step = "policy" => IsIn(run.calls, "network-endpoint-groups delete")
        /\ run.step = "manifest" => IsIn(run.calls, "security-policies delete")
        /\ run.pc = "done" => run.calls \in { TeardownWithImport, TeardownWithoutImport }

\* Every teardown step failed (the URL map still holds what it held, the
\* three resources still exist) and the run still reached its end.
C6_Witness ==
    /\ run.op = "remove"
    /\ run.pc = "done"
    /\ run.calls = TeardownWithoutImport
    /\ cloud.backend.exists /\ cloud.neg /\ cloud.policy.exists
    /\ cloud = pre.cloud

\* C7: every remove run that is not cancelled at the prompt ends returning
\* success with loadbalancer_configured false, path and url cleared and one
\* loadbalancer_remove entry appended.
C7_RemoveAlwaysUpdatesManifest ==
    (run.op = "remove" /\ run.pc = "done" /\ ~Cancelled) =>
        /\ run.result = "True"
        /\ manifest.state.loadbalancer_configured = "False"
        /\ manifest.config.loadbalancer_path = None
        /\ manifest.config.loadbalancer_url = None
        /\ Len(manifest.log) = Len(pre.manifest.log) + 1
        /\ manifest.log[Len(manifest.log)].operation = "loadbalancer_remove"

\* C8: no run issues an OAuth-client delete and no run ends with fewer OAuth
\* clients than it began with.
C8_OAuthClientsNeverDeleted ==
    /\ ~IsIn(run.calls, "oauth-clients delete")
    /\ pre.cloud.oauth_clients \subseteq cloud.oauth_clients

C8_Witness ==
    /\ run.op = "remove"
    /\ run.result = "True"
    /\ cloud.oauth_clients # {}
    /\ ~cloud.backend.exists /\ ~cloud.neg /\ ~cloud.policy.exists

\* C9: when the NEG (the security policy) exists at the probe, the
\* provisioner returns success having issued the probe and no create; so it
\* is on the invocation that follows one that created the resource.
C9_ProbeHitIsIdempotent ==
    run.op = "add" =>
        /\ (pre.cloud.neg /\ IsIn(run.calls, "network-endpoint-groups describe")) =>
             /\ ~IsIn(run.calls, "network-endpoint-groups create")
             /\ Count(run.calls, "network-endpoint-groups describe") = 1
             /\ run.step # "neg" /\ run.failed # "neg"
             /\ cloud.neg
        /\ (pre.cloud.policy.exists /\ IsIn(run.calls, "security-policies describe")) =>
             /\ ~IsIn(run.calls, "security-policies create")
             /\ ~IsIn(run.calls, "security-policies rules create")
             /\ Count(run.calls, "security-policies describe") = 1
             /\ run.step # "policy" /\ run.failed # "policy"
             /\ cloud.policy = pre.cloud.policy

\* The second add run after a first one that created the NEG and the policy
\* (a policy without its rule is only ever left by this provisioner).
C9_Witness ==
    /\ run.op = "add"
    /\ runs = 2
    /\ pre.cloud.neg
    /\ pre.cloud.policy.exists /\ pre.cloud.policy.rules = {}
    /\ IsIn(run.calls, "security-policies describe")
    /\ run.step = "backend"

BackendCalls == SelectSeq(run.calls, IsBackendCmd)

\* The backend service existed with a backend attached when probed, and the
\* description was parsed.
Adopting ==
    /\ run.op = "add"
    /\ run.has_backends # "None"
    /\ pre.cloud.backend.exists
    /\ pre.cloud.backend.backends # {}

\* C10 as stated: in the adopt branch create_backend_service issues only the
\* describe probe, no mutating call, and returns success.
C10_AdoptIssuesNoMutation ==
    Adopting =>
        /\ \A i \in DOMAIN BackendCalls : ~Mutating(BackendCalls[i])
        /\ run.failed # "backend"

\* C10 amended: in the adopt branch create_backend_service issues, after the
\* describe probe, exactly one mutating call, the backend-services update
\* that re-attaches the security policy, and returns success whatever the
\* exit code of that call; it issues no create, delete or add-backend.
C10_AdoptIssuesOnlyUpdate ==
    Adopting =>
        /\ IsPrefix(BackendCalls, << "backend-services describe", "backend-services update" >>)
        /\ run.step # "backend" =>
             BackendCalls = << "backend-services describe", "backend-services update" >>
        /\ run.failed # "backend"
        /\ cloud.backend.exists /\ cloud.backend.backends = pre.cloud.backend.backends

\* The update exited non-zero (the policy is still not attached) and the step
\* returned success.
C10_Witness ==
    /\ Adopting
    /\ run.step = "iap"
    /\ ~cloud.backend.securityPolicy

\* The OAuth step of the current add run has been carried out.
OAuthInvoked ==
    /\ run.op = "add"
    /\ run.gcloud
    /\ run.step # ""
    /\ StepRank(run.step) > 2 \/ run.failed = "oauth"

\* C11: create_iap_oauth_client probes nothing: every invocation issues
\* exactly one oauth-clients create, directly after the NEG commands, also when
\* clients of the same display name exist already; a creation that exits zero
\* adds one more client to those that existed before the run.
C11_OAuthCreatedOnEveryInvocation ==
    OAuthInvoked =>
        /\ Count(run.calls, "oauth-clients create") = 1
        /\ \A i \in DOMAIN run.calls :
             AddRank(run.calls[i]) = 2 =>
                \A j \in 1..(i - 1) : AddRank(run.calls[j]) = 1
        /\ "oauth" \in run.created =>
             Cardinality(cloud.oauth_clients) = Cardinality(pre.cloud.oauth_clients) + 1

\* The second invocation, after a first one that created a client, has
\* created a second client.
C11_Witness ==
    /\ OAuthInvoked
    /\ runs = 2
    /\ pre.cloud.oauth_clients # {}
    /\ "oauth" \in run.created
    /\ Cardinality(cloud.oauth_clients) = 2

\* The path rules of the active matcher in a list of path matchers, as a set.
ActiveRules(ms) ==
    UNION { { ms[i].pathRules[k] : k \in DOMAIN ms[i].pathRules } :
              i \in { j \in DOMAIN ms : ms[j].name = ActiveMatcher } }

\* Editor e has completed a removal that fetched exactly the document its
\* own preceding successful add of the same path had written.
RoundTrip(e) ==
    /\ edit.ed[e].op = "remove"
    /\ edit.ed[e].roundtrip
    /\ edit.ed[e].pc = "done"
    /\ edit.ed[e].result = "True"

\* C12: a successful add of a path rule followed immediately by a successful
\* removal with the same path writes a document whose path-matcher-1 rule set
\* equals the one fetched before the add, whatever rules the document held.
C12_AddThenRemoveRestoresRules ==
    \A e \in Editors :
        RoundTrip(e) =>
            ActiveRules(edit.ed[e].file.pathMatchers) = ActiveRules(edit.ed[e].prior.before)

\* A cycle of editor e has written its file, and the file as imported.
Written(e) ==
    \/ edit.ed[e].pc = "import"
    \/ edit.ed[e].pc = "done" /\ edit.ed[e].result = "True"

Poisoned ==
    /\ run.op = "add"
    /\ run.has_backends = "False"
    /\ pre.cloud.backend.exists
    /\ pre.cloud.backend.portName # ""

\* C14: on a backend service with empty backends and a port name,
\* create_backend_service issues, after the probe, one delete and then create,
\* add-backend, update in that order, each only if the one before exited zero;
\* it returns success exactly when all four did, and then the service is a
\* fresh one with the NEG and the security policy attached.
C14_PoisonedIsDeletedAndRecreated ==
    Poisoned =>
        /\ IsPrefix(BackendCalls,
                    << "backend-services describe", "backend-services delete",
                       "backend-services create", "backend-services add-backend",
                       "backend-services update" >>)
        /\ Len(BackendCalls) >= 2 \/ run.pc = "backend_recreate_delete"
        /\ run.step # "backend" =>
             /\ Len(BackendCalls) = 5
             /\ Count(BackendCalls, "backend-services delete") = 1
             /\ cloud.backend = [ exists |-> TRUE, backends |-> { NegName },
                                  portName |-> "", securityPolicy |-> TRUE ]
        /\ run.failed = "backend" => ~cloud.backend.securityPolicy

\* The recovery has run to its end: the add run is past the backend step.
C14_Witness ==
    /\ Poisoned
    /\ run.step = "iap"
    /\ cloud.backend.portName = ""
    /\ cloud.backend.backends = { NegName }

\* Editor e has completed a successful removal.
Removed(e) ==
    /\ edit.ed[e].op = "remove"
    /\ edit.ed[e].pc = "done"
    /\ edit.ed[e].result = "True"

RulesOf(m) == { m.pathRules[k] : k \in DOMAIN m.pathRules }

\* C15 as stated: after a successful removal no path matcher of the written
\* URL map, whatever its name, holds a rule with a path starting with the
\* prefix.
C15_RemovedFromAllMatchers ==
    \A e \in Editors :
        Removed(e) =>
            \A i \in DOMAIN edit.ed[e].file.pathMatchers :
                \A r \in RulesOf(edit.ed[e].file.pathMatchers[i]) :
                    ~RuleMatches(r, edit.ed[e].path)

\* C15 amended: the removal filters the matchers named path-matcher-1 only:
\* such a matcher keeps exactly its rules none of whose paths starts with the
\* prefix; the rules of every other matcher are written back as fetched.
C15_RemovedFromActiveMatcherOnly ==
    \A e \in Editors :
        Removed(e) =>
            LET got == edit.ed[e].fetched.pathMatchers
                out == edit.ed[e].file.pathMatchers
            IN /\ Len(out) = Len(got)
               /\ \A i \in DOMAIN out :
                    /\ out[i].name = got[i].name
                    /\ IF got[i].name = "path-matcher-1"
                       THEN RulesOf(out[i]) =
                              { r \in RulesOf(got[i]) : ~RuleMatches(r, edit.ed[e].path) }
                       ELSE out[i].pathRules = got[i].pathRules

\* A removal on a document in which both path-matcher-1 and another matcher
\* held a rule with a path starting with the prefix.
C15_Witness ==
    \E e \in Editors :
        /\ Removed(e)
        /\ \E i, j \in DOMAIN edit.ed[e].fetched.pathMatchers :
             /\ edit.ed[e].fetched.pathMatchers[i].name = "path-matcher-1"
             /\ edit.ed[e].fetched.pathMatchers[j].name # "path-matcher-1"
             /\ \E r \in RulesOf(edit.ed[e].fetched.pathMatchers[i]) : RuleMatches(r, edit.ed[e].path)
             /\ \E r \in RulesOf(edit.ed[e].fetched.pathMatchers[j]) : RuleMatches(r, edit.ed[e].path)

\* An add run that started with none of the project's cloud resources and
\* was confirmed with `y`.
FreshScenario ==
    /\ run.op = "add"
    /\ ~pre.cloud.neg /\ ~pre.cloud.policy.exists /\ ~pre.cloud.backend.exists
    /\ pre.cloud.oauth_clients = {}
    /\ run.response = << "y" >>

\* The mutating commands of a fresh add run, in order.
FreshMutations ==
    << "network-endpoint-groups create", "oauth-clients create",
       "security-policies create", "security-policies rules create",
       "backend-services create", "backend-services add-backend",
       "backend-services update", "iap web add-iam-policy-binding",
       "url-maps import" >>

\* The first path matcher named path-matcher-1 of a URL map, 0 if none.
FirstActive(ms) ==
    IF \E i \in DOMAIN ms : ms[i].name = "path-matcher-1"
    THEN CHOOSE i \in DOMAIN ms :
           /\ ms[i].name = "path-matcher-1"
           /\ \A j \in 1..(i - 1) : ms[j].name # "path-matcher-1"
    ELSE 0

HasRule(ms, path) ==
    \E r \in ActiveRules(ms) : r.paths = << path, path \o << "/" >>, path \o << "/", "*" >> >>

\* Two editors have each run one add cycle, for different paths, on a URL
\* map that holds path-matcher-1, and both cycles reported success.
BothAdded ==
    /\ \A e \in Editors :
         /\ edit.ed[e].op = "add"
         /\ edit.ed[e].pc = "done"
         /\ edit.ed[e].result = "True"
         /\ edit.ed[e].cycles = 1
         /\ FirstActive(edit.ed[e].fetched.pathMatchers) # 0
    /\ edit.ed[1].path # edit.ed[2].path

\* The editor whose import came last, and the other one.
LastImporter == CHOOSE e \in Editors : \A f \in Editors : edit.ed[f].order <= edit.ed[e].order
FirstImporter == CHOOSE e \in Editors : e # LastImporter

\* C17: nothing orders the add cycles of two runs on the shared URL map.
\* After two successful cycles for different paths the map holds the rule of
\* the run that imported last; it holds the rule of the other run exactly
\* when the last importer had fetched the map after the other's import:
\* otherwise the import overwrote that rule.
C17_LastImportWins ==
    BothAdded =>
        /\ HasRule(edit.doc.pathMatchers, edit.ed[LastImporter].path)
        /\ HasRule(edit.doc.pathMatchers, edit.ed[FirstImporter].path)
             <=> HasRule(edit.ed[LastImporter].fetched.pathMatchers, edit.ed[FirstImporter].path)

\* The lost update: both runs reported success and the URL map holds only
\* the rule of one of them.
C17_Witness ==
    /\ BothAdded
    /\ HasRule(edit.doc.pathMatchers, edit.ed[LastImporter].path)
    /\ ~HasRule(edit.doc.pathMatchers, edit.ed[FirstImporter].path)

\* C18: every run of add_to_loadbalancer and of remove_from_loadbalancer
\* ends by returning a success or failure value, whatever the outcome of the
\* external commands (exit zero, exit non-zero, executable not found) and
\* the shape of the fetched document; no exception leaves a step or the
\* orchestrator.
C18_AllFailuresAreValues ==
    (run.op \in { "add", "remove" } /\ run.pc = "done") =>
        run.result \in { "True", "False" }

\* C19: without the gh executable delete_repository returns failure with
\* its 'not installed' message, attempts no delete and raises nothing.
C19_GhAbsentReturnsFailure ==
    (run.op = "delete_repository" /\ ~run.gh /\ run.pc = "done") =>
        /\ run.result = "False"
        /\ run.message = "not installed"
        /\ ~IsIn(run.calls, "gh repo delete --yes")
        /\ ~IsIn(run.calls, "gh repo delete --confirm")

\* The backend service was absent when create_backend_service probed it.
FreshBackend ==
    /\ run.op = "add"
    /\ IsIn(run.calls, "backend-services describe")
    /\ ~pre.cloud.backend.exists

\* C20: on an absent backend service create_backend_service issues create,
\* add-backend, update in that order, each only after the one before exited
\* zero; it returns success only when all three did; at the first non-zero
\* exit it returns failure with no further sub-step and no delete, and what
\* was created stays.
C20_FreshBackendAllOrFail ==
    FreshBackend =>
        /\ IsPrefix(BackendCalls,
                    << "backend-services describe", "backend-services create",
                       "backend-services add-backend", "backend-services update" >>)
        /\ run.step # "backend" =>
             /\ Len(BackendCalls) = 4
             /\ cloud.backend = [ exists |-> TRUE, backends |-> { NegName },
                                  portName |-> "", securityPolicy |-> TRUE ]
        /\ run.failed = "backend" =>
             /\ Len(BackendCalls) >= 2
             /\ ~cloud.backend.securityPolicy
             /\ cloud.backend.exists <=> Len(BackendCalls) >= 3
             /\ cloud.backend.backends # {} <=> Len(BackendCalls) = 4

\* add-backend exited non-zero: the step has failed and the service it
\* created is still there.
C20_Witness ==
    /\ FreshBackend
    /\ run.failed = "backend"
    /\ Len(BackendCalls) = 3
    /\ cloud.backend.exists

\* The backend service existed with no backend and no port name when probed,
\* and the description was parsed.
Attaching ==
    /\ run.op = "add"
    /\ run.has_backends = "False"
    /\ pre.cloud.backend.exists
    /\ pre.cloud.backend.portName = ""

\* C21: on a backend service with empty backends and no port name,
\* create_backend_service issues, after the probe, one add-backend and
\* nothing else; it returns success exactly when that call exits zero, and
\* the attachment of the security policy is left as it was.
C21_AttachIssuesOnlyAddBackend ==
    Attaching =>
        /\ IsPrefix(BackendCalls,
                    << "backend-services describe", "backend-services add-backend" >>)
        /\ run.step # "backend" =>
             /\ Len(BackendCalls) = 2
             /\ cloud.backend.backends = { NegName }
        /\ run.failed = "backend" =>
             /\ Len(BackendCalls) = 2
             /\ cloud.backend.backends = {}
        /\ cloud.backend.exists
        /\ cloud.backend.securityPolicy = pre.cloud.backend.securityPolicy

\* The retry after a fresh creation whose add-backend failed: the NEG is
\* attached, the step has succeeded, and no security policy is attached.
C21_Witness ==
    /\ Attaching
    /\ runs = 2
    /\ run.step = "iap"
    /\ cloud.backend.backends = { NegName }
    /\ ~cloud.backend.securityPolicy

\* The backend service existed when probed and its description did not parse.
Unparsed ==
    /\ run.op = "add"
    /\ pre.cloud.backend.exists
    /\ IsIn(run.calls, "backend-services describe")
    /\ run.has_backends = "None"

\* C22: in the poisoned branch a delete that exits non-zero ends
\* create_backend_service with failure: no create and no later sub-step is
\* issued and the service is as it was; and when the output of a successful
\* probe does not parse, the function fails having issued the probe only.
C22_DeleteOrParseFailureIsFatal ==
    /\ (Poisoned /\ Len(BackendCalls) >= 2 /\ cloud.backend.portName # "") =>
          /\ run.failed = "backend"
          /\ BackendCalls = << "backend-services describe", "backend-services delete" >>
          /\ cloud.backend = pre.cloud.backend
    /\ Unparsed =>
          /\ run.failed = "backend"
          /\ BackendCalls = << "backend-services describe" >>
          /\ cloud.backend = pre.cloud.backend

\* The delete of the poisoned service has exited non-zero.
C22_Witness ==
    /\ Poisoned
    /\ run.failed = "backend"
    /\ BackendCalls = << "backend-services describe", "backend-services delete" >>
    /\ cloud.backend.portName # ""

\* C23: when add_path_rule returns failure (describe exits non-zero, its
\* output is no JSON, or the import exits non-zero) the URL map in the cloud
\* is the one from before the run, the manifest is not written and the run
\* returns failure; and an import that did not install the written document
\* makes the step fail.
C23_FailedAddRuleChangesNothing ==
    run.op = "add" =>
        /\ run.failed = "urlmap" =>
             /\ cloud.url_map = pre.cloud.url_map
             /\ manifest = pre.manifest
             /\ run.result = "False"
             /\ run.calls[Len(run.calls)] \in { "url-maps describe", "url-maps import" }
        /\ (IsIn(run.calls, "url-maps import") /\ cloud.url_map # run.url_map) =>
             run.failed = "urlmap"

\* The import of a patched document has exited non-zero.
C23_Witness ==
    /\ run.op = "add"
    /\ run.failed = "urlmap"
    /\ run.calls[Len(run.calls)] = "url-maps import"
    /\ run.url_map # pre.cloud.url_map
    /\ cloud.url_map = pre.cloud.url_map

\* The backend step of the current add run has succeeded.
BackendDone ==
    /\ run.op = "add"
    /\ run.step # ""
    /\ StepRank(run.step) > 4

\* C24: grant_iap_access issues one add-iam-policy-binding and returns
\* success whatever the exit code: once the backend step has succeeded the
\* run neither fails nor ends at the IAP step, and when it has left that step
\* it has issued the binding exactly once and stands in the hostname or
\* URL-map step or beyond.
C24_IapGrantNeverAborts ==
    BackendDone =>
        /\ run.failed # "iap"
        /\ run.step = "iap" =>
             /\ run.pc = "iap_grant"
             /\ Count(run.calls, "iap web add-iam-policy-binding") = 0
        /\ run.step # "iap" =>
             /\ Count(run.calls, "iap web add-iam-policy-binding") = 1
             /\ run.iap_returncode \in { "zero", "non-zero" }
             /\ IsIn(run.calls, "url-maps describe")
                  \/ run.pc \in { "run_describe", "urlmap_describe" }

\* The binding command has exited non-zero and the run has gone on to fetch
\* the URL map.
C24_Witness ==
    /\ BackendDone
    /\ run.iap_returncode = "non-zero"
    /\ IsIn(run.calls, "url-maps describe")

\* C25: create_iap_oauth_client hands back a client only when the create
\* exited zero and its output gave a non-empty client id and a non-empty
\* secret; otherwise the step fails, also when the client was created in the
\* cloud, and the add run returns failure without any security-policy or
\* later command.
C25_OAuthClientNeedsIdAndSecret ==
    OAuthInvoked =>
        /\ run.failed # "oauth" =>
             /\ "oauth" \in run.created
             /\ run.oauth_client.client_id # ""
             /\ run.oauth_client.client_secret # ""
             /\ run.oauth_client.display_name = "IAP-a-backend"
        /\ run.failed = "oauth" =>
             /\ run.result = "False"
             /\ run.oauth_client.client_id = "" /\ run.oauth_client.client_secret = ""
             /\ \A i \in DOMAIN run.calls : AddRank(run.calls[i]) <= 2
             /\ manifest = pre.manifest

\* The create exited zero, its output gave no usable credentials, and the
\* run has failed with one more client in the cloud.
C25_Witness ==
    /\ OAuthInvoked
    /\ run.failed = "oauth"
    /\ "oauth" \in run.created
    /\ Cardinality(cloud.oauth_clients) = Cardinality(pre.cloud.oauth_clients) + 1

\* The rule the current add run appended to path-matcher-1 of the document
\* it wrote.
Appended ==
    LET m == run.url_map[FirstActive(run.url_map)]
    IN m.pathRules[Len(m.pathRules)]

\* C26: the Cloud Run hostname is looked up only when use_host_rewrite is
\* set, once, and the lookup never ends the run: with or without a hostname
\* the run goes on to the URL-map step; the rule written there carries the
\* resolved hostname as hostRewrite, and none when nothing was resolved.
C26_HostnameLookupIsOptional ==
    run.op = "add" =>
        /\ ~run.use_host_rewrite =>
             /\ ~IsIn(run.calls, "run services describe")
             /\ run.cloud_run_url = ""
        /\ (run.use_host_rewrite /\ run.step \in { "urlmap", "manifest" }) =>
             Count(run.calls, "run services describe") = 1
        /\ run.failed # "hostname"
        /\ run.step = "hostname" => run.pc = "run_describe"
        /\ (IsIn(run.calls, "url-maps import") /\ FirstActive(pre.cloud.url_map) # 0) =>
             /\ Appended.hostRewrite = run.cloud_run_url
             /\ Appended.hostRewrite # "" => run.use_host_rewrite

\* The lookup was made and resolved nothing; the run has imported a rule
\* without hostRewrite and succeeded.
C26_Witness ==
    /\ run.op = "add"
    /\ run.use_host_rewrite
    /\ IsIn(run.calls, "run services describe")
    /\ run.cloud_run_url = ""
    /\ FirstActive(pre.cloud.url_map) # 0
    /\ run.result = "True"
    /\ Appended.hostRewrite = ""

\* C27: whenever an add run has returned success and set
\* loadbalancer_configured, the document it imported holds, in a matcher
\* named path-matcher-1, a rule with paths path, path/, path/* for the
\* project's backend, whatever document was fetched.
C27_SuccessMeansRuleImported ==
    (run.op = "add" /\ run.result = "True"
       /\ manifest.state.loadbalancer_configured = "True") =>
        \E i \in DOMAIN run.url_map :
            /\ run.url_map[i].name = "path-matcher-1"
            /\ \E k \in DOMAIN run.url_map[i].pathRules :
                 /\ run.url_map[i].pathRules[k].paths =
                       << run.path, run.path \o << "/" >>, run.path \o << "/", "*" >> >>
                 /\ run.url_map[i].pathRules[k].service = "a-backend"

\* create_security_policy has returned success in the current add run.
PolicyDone ==
    /\ run.op = "add"
    /\ run.step # ""
    /\ StepRank(run.step) > 3

\* C28 as stated: whenever create_security_policy has returned success the
\* policy carries the throttle rule at priority 2147483646, also on a retry
\* after a run whose policy create succeeded and whose rule create failed.
C28_SuccessMeansThrottleRule ==
    PolicyDone => 2147483646 \in cloud.policy.rules

\* C28 amended: whenever create_security_policy has returned success the
\* policy exists; it carries the throttle rule when this invocation created
\* the policy; a policy that existed at the probe is left exactly as it was,
\* rule or no rule, with no create issued.
C28_ExistingPolicyIsTrusted ==
    PolicyDone =>
        /\ cloud.policy.exists
        /\ "policy" \in run.created =>
             /\ 2147483646 \in cloud.policy.rules
             /\ Count(run.calls, "security-policies rules create") = 1
        /\ pre.cloud.policy.exists =>
             /\ cloud.policy = pre.cloud.policy
             /\ ~IsIn(run.calls, "security-policies create")
             /\ ~IsIn(run.calls, "security-policies rules create")

\* The retry after a run whose policy create succeeded and whose rule
\* create failed: the step has succeeded and the policy has no rule.
C28_Witness ==
    /\ PolicyDone
    /\ runs = 2
    /\ pre.cloud.policy.exists
    /\ cloud.policy.rules = {}
    /\ Count(run.calls, "security-policies describe") = 1

\* C29: whenever create_backend_service has returned success, by fresh
\* creation, adoption, attachment or recreation and whatever earlier runs
\* left behind, the backend service exists and has a backend attached; and
\* so it stays to the end of the add run.
C29_SuccessMeansBackendAttached ==
    BackendDone =>
        /\ cloud.backend.exists
        /\ cloud.backend.backends # {}
        /\ Len(BackendCalls) >= 2
        /\ BackendCalls[1] = "backend-services describe"

\* Success by attachment, on the service a failed earlier run left without
\* backend.
C29_Witness ==
    /\ BackendDone
    /\ runs = 2
    /\ pre.cloud.backend.exists
    /\ pre.cloud.backend.backends = {}
    /\ pre.cloud.backend.portName = ""
    /\ run.result = "True"

\* The positions of the path rules of the matchers named path-matcher-1.
ActiveRulePositions(ms) ==
    UNION { { << i, k >> : k \in DOMAIN ms[i].pathRules } :
              i \in { j \in DOMAIN ms : ms[j].name = "path-matcher-1" } }

\* C30: add_path_rule checks for no existing rule: each successful call
\* adds exactly one rule to path-matcher-1, so a second successful add run
\* for the path of the last one, with no remove in between, leaves two rules
\* with the same three paths.
C30_EachAddAppendsOneRule ==
    (run.op = "add" /\ run.step = "manifest") =>
        /\ Cardinality(ActiveRulePositions(cloud.url_map))
             = Cardinality(ActiveRulePositions(pre.cloud.url_map)) + 1
        /\ (pre.manifest.state.loadbalancer_configured = "True"
              /\ pre.manifest.config.loadbalancer_path = run.path) =>
             Cardinality({ p \in ActiveRulePositions(cloud.url_map) :
                             cloud.url_map[p[1]].pathRules[p[2]].paths =
                                << run.path, run.path \o << "/" >>,
                                   run.path \o << "/", "*" >> >> }) >= 2

\* C31: over all add runs so far, the oauth-clients create commands
\* issued are as many as the confirmed runs whose NEG step returned success
\* (one less while the latest of them stands before its create); a run that
\* finds the backend service in place still creates its client, and issues no
\* backend-services create that could use it.
C31_OneOAuthCreatePerRunPastNeg ==
    /\ hist.oauth_creates =
         hist.neg_succeeded - (IF run.pc = "oauth_create" THEN 1 ELSE 0)
    /\ hist.neg_succeeded <= runs
    /\ (BackendDone /\ pre.cloud.backend.exists /\ pre.cloud.backend.portName = "") =>
         /\ Count(run.calls, "oauth-clients create") = 1
         /\ ~IsIn(run.calls, "backend-services create")

\* The second add run has created a second client and has found the backend
\* service in place: no backend-services create has been issued for it.
C31_Witness ==
    /\ runs = 2
    /\ hist.neg_succeeded = 2
    /\ hist.oauth_creates = 2
    /\ BackendDone
    /\ "oauth" \in run.created
    /\ pre.cloud.backend.exists
    /\ ~IsIn(run.calls, "backend-services create")

\* C32: from a manifest with loadbalancer_configured unset and no path and
\* url, at every point of every sequence of add and remove runs:
\* loadbalancer_configured is true exactly when loadbalancer_path and
\* loadbalancer_url are both set, neither is set without the other, the url
\* is then https://<domain> followed by the path; and the operation log only
\* grows, by at most one entry per run.
C32_ManifestConsistent ==
    /\ manifest.state.loadbalancer_configured = "True"
         <=> (manifest.config.loadbalancer_path # <<>> /\ manifest.config.loadbalancer_url # <<>>)
    /\ manifest.config.loadbalancer_path = <<>> <=> manifest.config.loadbalancer_url = <<>>
    /\ manifest.state.loadbalancer_configured = "True" =>
         manifest.config.loadbalancer_url
            = << "https://", DOMAIN_NAME >> \o manifest.config.loadbalancer_path
    /\ IsPrefix(pre.manifest.log, manifest.log)
    /\ Len(manifest.log) <= Len(pre.manifest.log) + 1
    /\ Len(manifest.log) <= runs

\* An add run and then a remove run have both completed with success: the
\* flag is false again, path and url are cleared, the log has two entries.
C32_Witness ==
    /\ runs = 2
    /\ run.op = "remove"
    /\ run.result = "True"
    /\ pre.manifest.state.loadbalancer_configured = "True"
    /\ manifest.state.loadbalancer_configured = "False"
    /\ manifest.config.loadbalancer_url = <<>>
    /\ Len(manifest.log) = 2

\* ------------------------------------------------------------------- C33
\* The steps of a run the claim names, in the order they were entered
\* (ensure_env_file, which the claim does not name, left out).
NamedSteps(steps) == SelectSeq(steps, LAMBDA s : s # "env_file")
NamedOrder == << "dependencies", "project_files", "frontend", "backend" >>
AllButLast(s) == SubSeq(s, 1, Len(s) - 1)
InitWritten ==
    /\ manifest.state.initialized = "True"
    /\ manifest.config.project_name = project_name
    /\ manifest.log = Append(pre.manifest.log, [ operation |-> "init", type |-> "local" ])
    /\ manifest.state.deployed = pre.manifest.state.deployed
    /\ manifest.state.loadbalancer_configured = pre.manifest.state.loadbalancer_configured
NonZero(calls) == { k \in DOMAIN calls : calls[k][2] # 0 }

VersionAtLeast(v, w) == v[1] > w[1] \/ (v[1] = w[1] /\ v[2] >= w[2])

\* C34 (as stated): check_python_version returns true exactly when the
\* interpreter's (major, minor) is at least (3, 10) in version order, for all
\* major and minor values, those with major > 3 and minor < 10 included.
\* The code tests the two components separately (line 32): for 4.0 or 4.9
\* it returns false.
C34_TrueIffAtLeast310 ==
    init.python_ok # "none" =>
        (init.python_ok = "True" <=> VersionAtLeast(init.version, << 3, 10 >>))

====
